---- MODULE Spec2Model ----
(***************************************************************************)
(* Model of the raster-feature stage of SoilScan-Sentinel2                 *)
(* (src/src/add_raster_features.py): band discovery and deduplication,     *)
(* point reprojection, 3x3 neighbourhood sampling, column assembly,        *)
(* vegetation indices and the final write.                                 *)
(*                                                                         *)
(* File names are sequences of one-character strings so that the substring *)
(* test and the two regular expressions of extract_band_name are computed  *)
(* character by character.  Coordinates are integers; pixel values are     *)
(* non-negative integers (uint16 digital numbers) and NaN is the sentinel. *)
(***************************************************************************)
EXTENDS Integers, Sequences, FiniteSets, TLC

\* ------------------------------------------------------------------ bounds
MaxFiles == 2      \* longest list of discovered .jp2 files
MaxPoints == 2     \* most ground-truth points in one run
MaxH == 3          \* tallest raster, in pixels
MaxW == 4          \* widest raster, in pixels
MaxFaults == 1     \* most injected library failures in one run
MaxYield == 1      \* most crop-yield rasters in the yield directory
MaxProducts == 2   \* most products a catalogue query returns
MaxRows == 2       \* most rows of the table the weather stage loads

\* ------------------------------------------------------- values and helpers
\* A table cell is a float, kept as the pair <<numerator, denominator>>:
\* denominator 0 marks the non-finite values, as in IEEE division.
Float(n) == << n, 1 >>

\* np.nan, the value band_data_3x3 is initialised with
NaN == << 0, 0 >>

\* np.inf and -np.inf, as produced by a float division by zero
PosInf == << 1, 0 >>
NegInf == << 0 - 1, 0 >>

\* Python's None as returned by extract_band_name
None == <<>>

Min(a, b) == IF a < b THEN a ELSE b
Max(a, b) == IF a > b THEN a ELSE b

\* `pattern in filename` for Python strings
Contains(s, sub) ==
    \E i \in 1..(Len(s) - Len(sub) + 1) :
        \A k \in 1..Len(sub) : s[i + k - 1] = sub[k]

\* ---------------------------------------------------------- extract_band_name
skip_patterns ==
    { <<"A","O","T">>, <<"T","C","I">>, <<"W","V","P">>, <<"S","C","L">> }

UpperAlnum ==
    { "A","B","C","D","E","F","G","H","I","J","K","L","M","N","O","P","Q",
      "R","S","T","U","V","W","X","Y","Z",
      "0","1","2","3","4","5","6","7","8","9" }

\* the alternation  0[1-9] | 1[0-2] | 8A  of the strict pattern
StrictCode(d1, d2) ==
    \/ d1 = "0" /\ d2 \in {"1","2","3","4","5","6","7","8","9"}
    \/ d1 = "1" /\ d2 \in {"0","1","2"}
    \/ d1 = "8" /\ d2 = "A"

\* positions at which  _(B(0[1-9]|1[0-2]|8A))_  matches
StrictMatches(s) ==
    { i \in 1..(Len(s) - 4) :
        /\ s[i] = "_"
        /\ s[i + 1] = "B"
        /\ StrictCode(s[i + 2], s[i + 3])
        /\ s[i + 4] = "_" }

\* re.search reports the leftmost match
Leftmost(S) == CHOOSE i \in S : \A j \in S : i <= j

\* whether  _([A-Z0-9]{3})\.jp2$  matches (only one position can: the end)
FallbackMatches(s) ==
    /\ Len(s) >= 8
    /\ SubSeq(s, Len(s) - 3, Len(s)) = <<".","j","p","2">>
    /\ s[Len(s) - 7] = "_"
    /\ \A k \in (Len(s) - 6)..(Len(s) - 4) : s[k] \in UpperAlnum

FallbackGroup(s) == SubSeq(s, Len(s) - 6, Len(s) - 4)

\* mutant: the two patterns are listed in the opposite order
MatchPatterns_fallback_first(s) ==
    IF FallbackMatches(s) THEN FallbackGroup(s)
    ELSE IF StrictMatches(s) # {}
    THEN SubSeq(s, Leftmost(StrictMatches(s)) + 1, Leftmost(StrictMatches(s)) + 3)
    ELSE None

\* the ordered pattern loop of extract_band_name, after the skip test
MatchPatterns(s) ==
    IF StrictMatches(s) # {}
    THEN SubSeq(s, Leftmost(StrictMatches(s)) + 1, Leftmost(StrictMatches(s)) + 3)
    ELSE IF FallbackMatches(s) THEN FallbackGroup(s)
    ELSE None

\* mutant: the patterns are tried before the auxiliary markers are looked at
extract_band_name_match_first(filename) ==
    IF MatchPatterns(filename) # None THEN MatchPatterns(filename)
    ELSE None

extract_band_name(filename) ==
    IF \E p \in skip_patterns : Contains(filename, p)
    THEN None
    ELSE MatchPatterns(filename)

\* ------------------------------------------------------------ file universe
\* basenames are built as  <tile>_<code><tail>
JP2 == <<".","j","p","2">>
Tiles == { <<"T","1">>, <<"T","W","V","P">> }
Codes == { <<"B","0","4">>, <<"B","1","3">>, <<"T","C","I">> }
Tails == { <<"_","1","0","m">> \o JP2, JP2, <<"_","B","8","A">> \o JP2 }

\* os.path.basename of a discovered path: paths are [dir, name] records
basename(file_path) == file_path.name

\* the three resolution sub-directories, in the order find_jp2_files globs them
ResDirs == << "R10m", "R20m", "R60m" >>

\* where the universe keeps a name: its tail decides the directory
TailDir(e) ==
    IF e = <<"_","1","0","m">> \o JP2 THEN "R10m"
    ELSE IF e = JP2 THEN "R20m"
    ELSE "R60m"

Paths ==
    { [dir |-> TailDir(e), name |-> t \o <<"_">> \o c \o e] :
        t \in Tiles, c \in Codes, e \in Tails }

\* a SAFE tree maps each resolution directory to its listing; these build
\* the tree that holds the given distinct paths, each directory's files in
\* the order given (glob order inside a directory is arbitrary)
Distinct(fs) == \A i, j \in 1..Len(fs) : i < j => fs[i] # fs[j]

Listing(fs, d) ==
    LET InDir(p) == p.dir = d
        hits == SelectSeq(fs, InDir)
    IN  [ k \in 1..Len(hits) |-> hits[k].name ]

TreeOf(fs) == [ d \in {"R10m", "R20m", "R60m"} |-> Listing(fs, d) ]

\* glob.glob of one IMG_DATA/<dir>/*.jp2 pattern
glob(tree, d) == [ k \in 1..Len(tree[d]) |-> [dir |-> d, name |-> tree[d][k]] ]

\* find_jp2_files: the three patterns in order, results concatenated
find_jp2_files(tree) == glob(tree, ResDirs[1]) \o glob(tree, ResDirs[2]) \o glob(tree, ResDirs[3])

SeqsUpTo(S, n) == UNION { [1..k -> S] : k \in 0..n }

\* the two-band mosaic used when the inputs vary the points, not the files
TwoBands ==
    << [dir |-> "R10m", name |-> <<"T","1","_","B","0","4","_","1","0","m">> \o JP2],
       [dir |-> "R10m", name |-> <<"T","1","_","B","0","8","_","1","0","m">> \o JP2] >>

\* ---------------------------------------------------------------- geometry
\* Site coordinates are integer (lon, lat) pairs.  to_crs is modelled as the
\* map into a projected grid with false easting E0 and two projected units
\* per site step, shifted by one unit so that no site falls on a pixel edge.
PixelSize == 2
E0 == 500
N0 == 0

\* the CRS of the mosaic's tiles; a file without georeferencing has none
UTM == "EPSG:32632"

\* the CRS of a granule of the neighbouring UTM zone, whose grid is offset
UTM33 == "EPSG:32633"

\* to_crs for one point
Project(crs, pt) ==
    IF crs = UTM
    THEN << E0 + PixelSize * pt[1] + 1, N0 + PixelSize * pt[2] + 1 >>
    ELSE IF crs = UTM33
    THEN << E0 + PixelSize * pt[1] + 1 - 2 * PixelSize, N0 + PixelSize * pt[2] + 1 >>
    ELSE pt

\* the survey grid reaches two pixels beyond the largest raster on every side
Lons == (0 - 2)..(MaxW + 1)
Lats == (0 - 2)..(MaxH + 1)
Sites == { <<lon, lat>> : lon \in Lons, lat \in Lats }

\* the sites in row-major order, west to east then south to north
SiteAt(k) ==
    << (0 - 2) + ((k - 1) % (MaxW + 4)), (0 - 2) + ((k - 1) \div (MaxW + 4)) >>
NumSites == (MaxW + 4) * (MaxH + 4)

\* raster contents differ from file to file: a checksum of the name picks them
Alphabet == << "0","1","2","3","4","5","6","7","8","9","A","B","C","I","P","T",
               "V","W","_",".","j","m","p" >>
Ord(ch) == CHOOSE i \in 1..Len(Alphabet) : Alphabet[i] = ch
RECURSIVE SumOrd(_, _)
SumOrd(s, n) == IF n = 0 THEN 0 ELSE Ord(s[n]) + SumOrd(s, n - 1)
Checksum(s) == SumOrd(s, Len(s))

\* a band raster: north-up affine grid in the projected CRS. Tile T2 lies
\* in the neighbouring zone; a mosaic without georeferencing has no CRS.
\* level is the pixel value a uniform raster holds everywhere: levels lists
\* <<file name, value>> pairs; a file it does not list is not uniform
BandRaster(file_path, shp, levels, crs) ==
    [ id |-> file_path,
      crs |-> IF crs = "" THEN "" ELSE IF file_path.name[2] = "2" THEN UTM33 ELSE crs,
      level |-> LET Named(l) == l[1] = file_path.name
                    hits == SelectSeq(levels, Named)
                IN  [ k \in 1..Len(hits) |-> hits[k][2] ],
      x0 |-> E0, y0 |-> N0 + PixelSize * MaxH, ps |-> PixelSize,
      height |-> shp[1], width |-> shp[2], nodata |-> None,
      base |-> 100 * (Checksum(file_path.name) % 5) ]

\* a crop-yield raster: geographic grid, one site per pixel; nodata is what
\* the file declares (None when it declares nothing)
YieldRaster(k, shp, nodata) ==
    [ id |-> k, crs |-> "EPSG:4326", level |-> <<>>,
      x0 |-> 0, y0 |-> MaxH, ps |-> 1,
      height |-> shp[1], width |-> shp[2], nodata |-> nodata,
      base |-> 10000 * k ]

\* digital number stored at pixel (r, c) of a raster
DN(raster, r, c) ==
    IF raster.level # <<>> THEN raster.level[1]
    ELSE raster.base + 10 * r + c + 1

\* src.index(x, y): inverse affine transform, floored (\div floors)
index(raster, xy) ==
    << (raster.y0 - xy[2]) \div raster.ps, (xy[1] - raster.x0) \div raster.ps >>

\* -------------------------------------------------- windowed read (rasterio)
\* Window(col_off, row_off, width, height)
Window(col_off, row_off, width, height) ==
    [ col_off |-> col_off, row_off |-> row_off, width |-> width, height |-> height ]

\* a read that is not boundless crops the window to the dataset's extent
crop(window, height, width) ==
    LET row_start == Min(Max(window.row_off, 0), height)
        col_start == Min(Max(window.col_off, 0), width)
        row_stop == Max(0, Min(window.row_off + window.height, height))
        col_stop == Max(0, Min(window.col_off + window.width, width))
    IN  Window(col_start, row_start, col_stop - col_start, row_stop - row_start)

\* mutant: the patch is flattened column by column
read_flat_column_major(raster, window) ==
    LET w == crop(window, raster.height, raster.width)
    IN  [ k \in 1..(w.height * w.width) |->
            DN(raster, w.row_off + ((k - 1) % w.height),
                       w.col_off + ((k - 1) \div w.height)) ]

\* src.read(1, window=window) followed by patch.flatten(): the pixels of the
\* cropped window in row-major order (fewer than 9 when the window was
\* cropped, none when the window has no pixel of the raster)
read_flat(raster, window) ==
    LET w == crop(window, raster.height, raster.width)
    IN  [ k \in 1..(w.height * w.width) |->
            DN(raster, w.row_off + ((k - 1) \div w.width),
                       w.col_off + ((k - 1) % w.width)) ]

NaNRow == [ k \in 1..9 |-> NaN ]

\* band_data_3x3[i] = flat : numpy copies 9 values, broadcasts a single value
\* to all 9 cells, and raises ValueError for any other length
assign_row(flat) ==
    IF Len(flat) = 9 THEN [ exc |-> "none", row |-> [ k \in 1..9 |-> Float(flat[k]) ] ]
    ELSE IF Len(flat) = 1 THEN [ exc |-> "none", row |-> [ k \in 1..9 |-> Float(flat[1]) ] ]
    ELSE [ exc |-> "ValueError", row |-> NaNRow ]

\* mutant: the window starts at the containing pixel instead of around it
patch_window_top_left(rc) == Window(rc[2], rc[1], 3, 3)

\* the window the loop asks for around the containing pixel
patch_window(rc) == Window(rc[2] - 1, rc[1] - 1, 3, 3)

\* body of the try block for one point; fault is "none" or the exception a
\* library call raised before the assignment
try_block(raster, xy, fault) ==
    IF fault # "none"
    THEN [ exc |-> fault, row |-> NaNRow ]
    ELSE assign_row(read_flat(raster, patch_window(index(raster, xy))))

\* exceptions of the first except clause
QuietErrors == { "ValueError", "IndexError", "WindowError" }
\* exceptions only the second clause (except Exception) catches
LoudErrors == { "RasterioIOError" }
Faults == QuietErrors \cup LoudErrors

\* mutant: the second except clause stores NaN without printing
sample_point_silent(raster, xy, fault) ==
    LET t == try_block(raster, xy, fault)
    IN  [ row |-> IF t.exc = "none" THEN t.row ELSE NaNRow, diag |-> FALSE, exc |-> t.exc ]

\* try/except of lines 158-172: the row stored and whether a diagnostic prints
sample_point(raster, xy, fault) ==
    LET t == try_block(raster, xy, fault)
    IN  IF t.exc = "none" THEN [ row |-> t.row, diag |-> FALSE, exc |-> t.exc ]
        ELSE IF t.exc \in QuietErrors THEN [ row |-> NaNRow, diag |-> FALSE, exc |-> t.exc ]
        ELSE [ row |-> NaNRow, diag |-> TRUE, exc |-> t.exc ]

\* `dataset.nodata or 0`: None and 0.0 are falsy, NaN is not
nodata_or_0(nodata) ==
    IF nodata = None \/ nodata = Float(0) THEN Float(0) ELSE nodata

\* rasterio.sample.sample_gen for one coordinate: the pixel at the floored
\* index, or the dataset's nodata value (0 if unset) outside the extent
sample(raster, xy) ==
    LET rc == index(raster, xy)
    IN  IF rc[1] < 0 \/ rc[2] < 0 \/ rc[1] >= raster.height \/ rc[2] >= raster.width
        THEN nodata_or_0(raster.nodata)
        ELSE Float(DN(raster, rc[1], rc[2]))

\* ------------------------------------------------------------- pandas frames
\* A frame is [index, columns, data]: row labels, column names, and for each
\* column the cells in index order.
EmptyFrame == [ index |-> <<>>, columns |-> <<>>, data |-> <<>> ]

RangeIndex(n) == [ k \in 1..n |-> k - 1 ]

HasColumn(df, name) == \E j \in 1..Len(df.columns) : df.columns[j] = name

ColumnPos(df, name) ==
    CHOOSE j \in 1..Len(df.columns) :
        /\ df.columns[j] = name
        /\ \A i \in 1..Len(df.columns) : df.columns[i] = name => j <= i

\* df[name]
Column(df, name) == df.data[ColumnPos(df, name)]

\* df[name] = values : replaces the column of that name or appends a new one
SetColumn(df, name, values) ==
    IF HasColumn(df, name)
    THEN [ df EXCEPT !.data[ColumnPos(df, name)] = values ]
    ELSE [ df EXCEPT !.columns = Append(@, name), !.data = Append(@, values) ]

\* pd.DataFrame(dict): a dict of arrays gets a RangeIndex, a dict of Series
\* their common index, an empty dict an empty index
DataFrame(columns, data, idx) ==
    [ index |-> IF columns = <<>> THEN <<>> ELSE idx, columns |-> columns, data |-> data ]

InIndex(idx, label) == \E k \in 1..Len(idx) : idx[k] = label
LabelPos(idx, label) == CHOOSE k \in 1..Len(idx) : idx[k] = label

\* the labels of b that a lacks, in b's order
RECURSIVE NewLabels(_, _)
NewLabels(a, b) ==
    IF b = <<>> THEN <<>>
    ELSE IF InIndex(a, Head(b)) THEN NewLabels(a, Tail(b))
    ELSE << Head(b) >> \o NewLabels(Append(a, Head(b)), Tail(b))

\* mutant: join="inner", only the labels both frames have
InnerIndex(a, b) ==
    LET InB(l) == InIndex(b, l)
    IN  SelectSeq(a, InB)

\* outer join of two row indexes (the default of pd.concat)
UnionIndex(a, b) == a \o NewLabels(a, b)

\* reindex one frame's columns to idx; labels the frame lacks become NaN
Reindexed(df, idx) ==
    [ j \in 1..Len(df.data) |->
        [ k \in 1..Len(idx) |->
            IF InIndex(df.index, idx[k])
            THEN df.data[j][LabelPos(df.index, idx[k])]
            ELSE NaN ] ]

\* pd.concat([a, b], axis=1)
concat(a, b) ==
    LET idx == UnionIndex(a.index, b.index)
    IN  [ index |-> idx,
          columns |-> a.columns \o b.columns,
          data |-> Reindexed(a, idx) \o Reindexed(b, idx) ]

\* df.replace([np.inf, -np.inf], np.nan)
replace_inf(df) ==
    [ df EXCEPT !.data =
        [ j \in 1..Len(df.data) |->
            [ k \in 1..Len(df.data[j]) |->
                IF df.data[j][k] \in { PosInf, NegInf } THEN NaN ELSE df.data[j][k] ] ] ]

\* ------------------------------------------------------ vegetation indices
RECURSIVE Gcd(_, _)
Gcd(a, b) == IF b = 0 THEN a ELSE Gcd(b, a % b)
Abs(a) == IF a < 0 THEN 0 - a ELSE a

IsFinite(v) == v[2] # 0

\* exact quotient n/d of two integers, d > 0, in lowest terms
Ratio(n, d) == << n \div Gcd(Abs(n), d), d \div Gcd(Abs(n), d) >>

\* mutant: the operands of the difference are exchanged
normalized_difference_swapped(a, b) ==
    IF ~IsFinite(a) \/ ~IsFinite(b) THEN NaN
    ELSE LET n == b[1] - a[1]
             d == a[1] + b[1]
         IN  IF d = 0 THEN (IF n = 0 THEN NaN ELSE IF n > 0 THEN PosInf ELSE NegInf)
             ELSE IF d > 0 THEN Ratio(n, d)
             ELSE Ratio(0 - n, 0 - d)

\* (a - b) / (a + b) on two float cells holding integers, NaN or inf
normalized_difference(a, b) ==
    IF ~IsFinite(a) \/ ~IsFinite(b) THEN NaN
    ELSE LET n == a[1] - b[1]
             d == a[1] + b[1]
         IN  IF d = 0 THEN (IF n = 0 THEN NaN ELSE IF n > 0 THEN PosInf ELSE NegInf)
             ELSE IF d > 0 THEN Ratio(n, d)
             ELSE Ratio(0 - n, 0 - d)

B03_5 == <<"B","0","3","_","5">>
B04_5 == <<"B","0","4","_","5">>
B05_5 == <<"B","0","5","_","5">>
B08_5 == <<"B","0","8","_","5">>
NDVI == <<"N","D","V","I">>
NDRE == <<"N","D","R","E">>
GNDVI == <<"G","N","D","V","I">>

\* one `if ... in df.columns` block of section 6: the (name, Series) pairs it
\* adds to vi_data
vi_entry(df, name, a_col, b_col) ==
    IF HasColumn(df, a_col) /\ HasColumn(df, b_col)
    THEN << [ name |-> name,
              values |-> [ k \in 1..Len(df.index) |->
                  normalized_difference(Column(df, a_col)[k], Column(df, b_col)[k]) ] ] >>
    ELSE <<>>

\* mutant: the NDRE and GNDVI blocks are nested inside the NDVI block
vi_entries_nested(df) ==
    IF HasColumn(df, B08_5) /\ HasColumn(df, B04_5)
    THEN vi_entry(df, NDVI, B08_5, B04_5) \o vi_entry(df, NDRE, B08_5, B05_5)
            \o vi_entry(df, GNDVI, B08_5, B03_5)
    ELSE <<>>

\* vi_data after the three blocks, in insertion order
vi_entries(df) ==
    vi_entry(df, NDVI, B08_5, B04_5) \o vi_entry(df, NDRE, B08_5, B05_5)
        \o vi_entry(df, GNDVI, B08_5, B03_5)

\* ------------------------------------------------------------- column names
DigitChar(k) == Alphabet[k + 1]
neighbor_col(band_name, i) == band_name \o << "_", DigitChar(i) >>
feature_name(k) == << "y", "l", "d", "_", DigitChar(k) >>
TH_LONG == <<"T","H","_","L","O","N","G">>
TH_LAT == <<"T","H","_","L","A","T">>

\* pd.read_csv of the ground-truth file: one row per site, RangeIndex
read_csv(rows) ==
    [ index |-> RangeIndex(Len(rows)),
      columns |-> << TH_LONG, TH_LAT >>,
      data |-> << [ k \in 1..Len(rows) |-> Float(rows[k][1]) ],
                  [ k \in 1..Len(rows) |-> Float(rows[k][2]) ] >> ]

\* ------------------------------------------------------------------- state
VARIABLES
    env,               \* what is on disk: ground truth, yield dir, SAFE tree
    faults_left,       \* library failures the environment may still inject
    pc,                \* position of the script
    df_lucas, coords_wgs84,
    yield_files, yi,   \* the yield loop and its position
    safe_dir, jp2_files,
    band_files, processed_bands, fi,
    target_crs, coords_projected,
    all_band_data, band_data_3x3, bi, pi,
    exc,               \* what the try block of the last sampled point raised
    src,               \* the rasters held open, innermost with-block last
    opened,            \* every rasterio.open so far, in order
    stdout,            \* diagnostics printed
    csv,               \* every frame written to OUTPUT_CSV_PATH, in order
    exit_status,       \* -1 while running
    orch,              \* the orchestrator process (orchestrator.py)
    acq,               \* the acquisition stage (data_acquisition.py)
    wx                 \* the weather stage (add_weather_features.py)

\* the state of the raster-feature stage
raster_vars == << env, faults_left, pc, df_lucas, coords_wgs84, yield_files, yi,
                  safe_dir, jp2_files, band_files, processed_bands, fi, target_crs,
                  coords_projected, all_band_data, band_data_3x3, bi, pi, exc, src,
                  opened, stdout, csv, exit_status >>

\* the state of the other programs of the repository
other_vars == << orch, acq, wx >>

vars == << raster_vars, other_vars >>

Running == 0 - 1

Diag(kind, arg) == [ kind |-> kind, arg |-> arg ]

\* ------------------------------------------------------------------ inputs
Shapes == (1..MaxH) \X (1..MaxW)
SafeName == "S2A_MSIL2A_x.SAFE"

\* up to MaxPoints consecutive sites of the survey grid
SiteSlices ==
    { [ k \in 1..n |-> SiteAt(start + k - 1) ] :
        start \in 1..NumSites, n \in 0..MaxPoints } \cap SeqsUpTo(Sites, MaxPoints)

\* the site of pixel (1, 1): its window is inside every raster of 3x3 or more
InnerSite == << 1, MaxH - 2 >>
InnerStart == CHOOSE k \in 1..NumSites : SiteAt(k) = InnerSite

\* the .tif files of the yield directory are numbered 1..m
YieldIds(m) == [ k \in 1..m |-> k ]

Env(lucas, rows, ydir, tifs, safes, tree, shp, faults) ==
    [ lucas |-> lucas, rows |-> rows, yield_dir |-> ydir, tifs |-> tifs,
      safe_dirs |-> safes, tree |-> tree, shape |-> shp, faults |-> faults,
      nodata |-> None, levels |-> <<>>, crs |-> UTM ]

\* inputs that vary the SAFE tree
EnvCatalog ==
    { Env(TRUE, << InnerSite >>, FALSE, <<>>, << SafeName >>, fs, << MaxH, MaxW >>, 0) :
        fs \in { TreeOf(f) : f \in { g \in SeqsUpTo(Paths, MaxFiles) : Distinct(g) } } }

\* inputs that vary the points and the raster shape
EnvGeometry ==
    { Env(TRUE, rows, TRUE, YieldIds(MaxYield), << SafeName >>, TreeOf(TwoBands), shp, 0) :
        rows \in SiteSlices, shp \in Shapes }

\* inputs that vary which files and directories exist
EnvMissing ==
    { [ Env(lucas, << InnerSite >>, ydir, YieldIds(m), safes, TreeOf(TwoBands),
            << MaxH, MaxW >>, 0) EXCEPT !.crs = crs ] :
        lucas \in BOOLEAN, ydir \in BOOLEAN, m \in 0..MaxYield,
        safes \in { <<>>, << SafeName >>, << SafeName, "S2B_MSIL2A_x.SAFE" >> },
        crs \in { UTM, "" } }

\* inputs that vary the points and what the yield rasters declare as nodata:
\* nothing, a number, or NaN
EnvYield ==
    { [ Env(TRUE, rows, TRUE, YieldIds(MaxYield), << SafeName >>, TreeOf(TwoBands),
            << MaxH, MaxW >>, 0) EXCEPT !.nodata = nd ] :
        rows \in SiteSlices, nd \in { None, Float(0 - 9999), NaN } }

\* the 10 m file of a band of tile T1
BandFile(code) ==
    [dir |-> "R10m", name |-> <<"T","1","_">> \o code \o <<"_","1","0","m">> \o JP2]

\* the bands the vegetation indices read
IndexBands == << <<"B","0","3">>, <<"B","0","4">>, <<"B","0","5">>, <<"B","0","8">> >>

\* inputs that vary which of the index bands the mosaic holds
EnvBands ==
    { Env(TRUE, << InnerSite, << 0 - 2, 0 - 2 >> >>, FALSE, <<>>, << SafeName >>,
          TreeOf(fs), << MaxH, MaxW >>, 0) :
        fs \in { LET Held(c) == c \in held
                  IN  [ k \in 1..Len(SelectSeq(IndexBands, Held)) |->
                          BandFile(SelectSeq(IndexBands, Held)[k]) ] :
                  held \in SUBSET { IndexBands[k] : k \in 1..Len(IndexBands) } } }

\* pixel values of uniform rasters: reflectance-like numbers, zero, and a
\* negative number as an offset-corrected or signed raster may hold
PixelLevels == { 0 - 30, 0, 30, 50 }

\* inputs that vary the pixel values of the two bands, with points inside
\* the rasters and a reading that may fail
EnvValues ==
    { [ Env(TRUE, [ k \in 1..MaxPoints |-> SiteAt(InnerStart + k - 1) ], FALSE, <<>>,
            << SafeName >>, TreeOf(TwoBands), << MaxH, MaxW >>, MaxFaults)
          EXCEPT !.levels = << << TwoBands[1].name, a >>, << TwoBands[2].name, b >> >> ] :
        a \in PixelLevels, b \in PixelLevels }

\* inputs of a survey with MaxPoints points well inside the two band rasters
\* followed by one point whose pixel index is outside them
EnvScenario ==
    { Env(TRUE, [ k \in 1..MaxPoints |-> SiteAt(InnerStart + k - 1) ] \o << o >>, FALSE, <<>>,
          << SafeName >>, TreeOf(TwoBands), << MaxH, MaxW >>, 0) :
        o \in { s \in Sites :
                  LET raster == BandRaster(TwoBands[1], << MaxH, MaxW >>, <<>>, UTM)
                      rc == index(raster, Project(raster.crs, s))
                  IN  rc[1] < 0 \/ rc[1] >= raster.height \/ rc[2] < 0 \/ rc[2] >= raster.width } }

\* inputs that vary the points and which granule is listed first: a mosaic
\* with one band from each of two granules in different zones, in either
\* order
EnvTiles ==
    { Env(TRUE, rows, TRUE, YieldIds(MaxYield), << SafeName >>, TreeOf(fs),
          << MaxH, MaxW >>, 0) :
        rows \in SiteSlices,
        fs \in { << BandFile(<<"B","0","4">>),
                    [ BandFile(<<"B","0","8">>) EXCEPT !.name[2] = "2" ] >>,
                 << [ BandFile(<<"B","0","8">>) EXCEPT !.name[2] = "2" ],
                    BandFile(<<"B","0","4">>) >> } }

\* inputs under which library calls may fail while sampling
EnvFaulty ==
    { Env(TRUE, [ k \in 1..MaxPoints |-> SiteAt(InnerStart + k - 1) ], TRUE, <<>>,
          << SafeName >>, TreeOf(TwoBands), << MaxH, MaxW >>, MaxFaults) }

\* ------------------------------------------------- orchestrator (inputs)
\* SCRIPT_PIPELINE of orchestrator.py
SCRIPT_PIPELINE ==
    << "src/data_acquisition.py", "src/add_raster_features.py",
       "src/add_weather_features.py", "src/train_model.py" >>

\* what the orchestrator finds for one script: whether the interpreter can
\* be launched, whether the script file is there, and the status the script
\* exits with when it runs
Child(launch, present, status) ==
    [ launch |-> launch, present |-> present, status |-> status ]

\* the orchestrator before main() is called, with the scripts it will find
Orchestrator(children) ==
    [ pc |-> "main", children |-> children, i |-> 1, started |-> <<>>,
      finished |-> <<>>, out |-> <<>>, exit |-> Running ]

\* the orchestrator when a stage is run on its own
NoOrchestrator == [ Orchestrator(<<>>) EXCEPT !.pc = "none" ]

\* ---------------------------------------------------- acquisition (inputs)
\* CLOUD_COVER, the largest cloud cover accepted, in percent
CLOUD_COVER == 20

\* the acquisition stage before its first statement; lucas tells whether
\* the ground-truth file exists, zip what data/raw/ holds under the name
\* of the product's archive: nothing, a valid archive or a file that is
\* not one
Acquisition(lucas, zip) ==
    [ pc |-> "authenticate", lucas |-> lucas, zip |-> zip,
      products |-> <<>>, n |-> 1, filtered_products |-> <<>>, product_id |-> 0,
      status_code |-> 0, downloaded |-> FALSE, extracted |-> FALSE,
      out |-> <<>>, exit |-> Running ]

\* the acquisition stage when another program is run on its own
NoAcquisition == [ Acquisition(FALSE, "absent") EXCEPT !.pc = "none" ]

\* -------------------------------------------------------- weather (inputs)
\* lines 3-7: the names the script's import statements bind
imports == { "pd", "np", "requests", "time", "datetime" }

\* lines 14-19
WEATHER_VARIABLES ==
    << "temperature_2m_mean", "relative_humidity_2m_mean",
       "dew_point_2m_mean", "precipitation_sum" >>

\* lines 60 and 120: var.replace('_mean', '').replace('_sum', '')
simple_name(var) ==
    CASE var = "temperature_2m_mean" -> "temperature_2m"
      [] var = "relative_humidity_2m_mean" -> "relative_humidity_2m"
      [] var = "dew_point_2m_mean" -> "dew_point_2m"
      [] var = "precipitation_sum" -> "precipitation"

WeatherColumns == { simple_name(WEATHER_VARIABLES[k]) : k \in 1..Len(WEATHER_VARIABLES) }

\* a missing timestamp (it has no month)
NaT == 0

\* one row of the input table: its coordinates and the content of its date
\* column, a date (by its month) or nothing
RawRows ==
    { [ TH_LAT |-> 45, TH_LONG |-> lon, date |-> d ] : lon \in { 10, 11 }, d \in { 1, 7, NaT } }

RECURSIVE Tables(_)
\* the tables of exactly n rows
Tables(n) ==
    IF n = 0 THEN { <<>> } ELSE { Append(rows, row) : rows \in Tables(n - 1), row \in RawRows }

\* the weather stage before its first statement
Weather(input, date_column, raw) ==
    [ pc |-> "load", input |-> input, date_column |-> date_column, raw |-> raw,
      df |-> <<>>, unique_coords_dates |-> <<>>, n |-> 1,
      success_count |-> 0, fail_count |-> 0,
      loaded |-> FALSE, written |-> None, out |-> <<>>, exit |-> Running ]

\* the weather stage when another program is run on its own
NoWeather == [ Weather(FALSE, "none", <<>>) EXCEPT !.pc = "none" ]

\* the raster-feature stage before its first statement (or never started,
\* at "none"), for inputs drawn from Envs
RasterInit(Envs, start) ==
    /\ env \in Envs
    /\ faults_left = env.faults
    /\ exc = "none"
    /\ pc = start
    /\ df_lucas = EmptyFrame
    /\ coords_wgs84 = <<>>
    /\ yield_files = <<>>
    /\ yi = 1
    /\ safe_dir = ""
    /\ jp2_files = <<>>
    /\ band_files = <<>>
    /\ processed_bands = {}
    /\ fi = 1
    /\ target_crs = ""
    /\ coords_projected = <<>>
    /\ all_band_data = [ columns |-> <<>>, data |-> <<>> ]
    /\ band_data_3x3 = <<>>
    /\ bi = 1
    /\ pi = 1
    /\ src = <<>>
    /\ opened = <<>>
    /\ stdout = <<>>
    /\ csv = <<>>
    /\ exit_status = Running

\* the state before the first statement of the raster-feature stage run on
\* its own, for inputs drawn from Envs
InitOf(Envs) ==
    /\ RasterInit(Envs, "load")
    /\ orch = NoOrchestrator
    /\ acq = NoAcquisition
    /\ wx = NoWeather

Init == InitOf(EnvCatalog \cup EnvGeometry \cup EnvMissing \cup EnvFaulty \cup EnvYield
                \cup EnvBands \cup EnvValues \cup EnvScenario \cup EnvTiles)

\* runs over every SAFE tree of the universe
InitCatalog == InitOf(EnvCatalog \cup EnvMissing)

\* runs over every placing of the points and every raster shape
InitSampling == InitOf(EnvGeometry \cup EnvFaulty \cup EnvMissing)

\* ----------------------------------------------------------------- actions
\* exit(1), or an uncaught exception: the interpreter ends with status 1
Abort(msg) ==
    /\ stdout' = Append(stdout, msg)
    /\ exit_status' = 1
    /\ pc' = "exit"

\* section 3 (lines 62-78): load the ground truth, build coords_wgs84
Load ==
    /\ pc = "load"
    /\ IF ~env.lucas
       THEN /\ Abort(Diag("Error: LUCAS file not found", <<>>))
            /\ UNCHANGED << df_lucas, coords_wgs84 >>
       ELSE /\ df_lucas' = read_csv(env.rows)
            /\ coords_wgs84' = env.rows
            /\ pc' = "list_yield"
            /\ UNCHANGED << stdout, exit_status >>
    /\ UNCHANGED << exc, env, faults_left, yield_files, yi, safe_dir, jp2_files,
                    band_files, processed_bands, fi, target_crs, coords_projected,
                    all_band_data, band_data_3x3, bi, pi, src, opened, csv >>
    /\ UNCHANGED other_vars

\* lines 81-86: list the yield directory, a missing directory is a warning
ListYield ==
    /\ pc = "list_yield"
    /\ IF env.yield_dir
       THEN yield_files' = env.tifs /\ UNCHANGED stdout
       ELSE /\ yield_files' = <<>>
            /\ stdout' = Append(stdout, Diag("Warning: Yield directory not found", <<>>))
    /\ yi' = 1
    /\ pc' = "yield_loop"
    /\ UNCHANGED << exc, env, faults_left, df_lucas, coords_wgs84, safe_dir, jp2_files,
                    band_files, processed_bands, fi, target_crs, coords_projected,
                    all_band_data, band_data_3x3, bi, pi, src, opened, csv,
                    exit_status >>
    /\ UNCHANGED other_vars

\* lines 88-95: one yield raster, opened, sampled at every point, closed
SampleYield ==
    /\ pc = "yield_loop"
    /\ yi <= Len(yield_files)
    /\ LET raster == YieldRaster(yield_files[yi], env.shape, env.nodata)
           samples == [ k \in 1..Len(coords_wgs84) |->
                          sample(raster, coords_wgs84[k]) ]
       IN  df_lucas' = SetColumn(df_lucas, feature_name(yield_files[yi]), samples)
    /\ opened' = Append(opened, [dir |-> "fao_gaez", name |-> feature_name(yield_files[yi])])
    /\ yi' = yi + 1
    /\ UNCHANGED << exc, env, faults_left, pc, coords_wgs84, yield_files, safe_dir,
                    jp2_files, band_files, processed_bands, fi, target_crs,
                    coords_projected, all_band_data, band_data_3x3, bi, pi, src,
                    stdout, csv, exit_status >>
    /\ UNCHANGED other_vars

\* mutant: a default directory stands in when no .SAFE directory is found
find_safe_directory_default(safe_dirs) ==
    IF safe_dirs # <<>> THEN safe_dirs[1] ELSE "data/raw"

\* find_safe_directory: the first glob hit, or None
find_safe_directory(safe_dirs) == IF safe_dirs # <<>> THEN safe_dirs[1] ELSE ""

\* lines 97-105: locate the .SAFE directory
FindSafe ==
    /\ pc = "yield_loop"
    /\ yi > Len(yield_files)
    /\ safe_dir' = find_safe_directory(env.safe_dirs)
    /\ IF safe_dir' = ""
       THEN Abort(Diag("Error: No .SAFE directory found", <<>>))
       ELSE pc' = "find_jp2" /\ UNCHANGED << stdout, exit_status >>
    /\ UNCHANGED << exc, env, faults_left, df_lucas, coords_wgs84, yield_files, yi,
                    jp2_files, band_files, processed_bands, fi, target_crs,
                    coords_projected, all_band_data, band_data_3x3, bi, pi, src,
                    opened, csv >>
    /\ UNCHANGED other_vars

\* lines 107-116: discover the .jp2 files, start the catalog loop
FindJp2 ==
    /\ pc = "find_jp2"
    /\ jp2_files' = find_jp2_files(env.tree)
    /\ IF jp2_files' = <<>>
       THEN Abort(Diag("Error: No .jp2 files found", <<>>))
       ELSE pc' = "catalog" /\ UNCHANGED << stdout, exit_status >>
    /\ band_files' = <<>>
    /\ processed_bands' = {}
    /\ fi' = 1
    /\ UNCHANGED << exc, env, faults_left, df_lucas, coords_wgs84, yield_files, yi,
                    safe_dir, target_crs, coords_projected, all_band_data,
                    band_data_3x3, bi, pi, src, opened, csv >>
    /\ UNCHANGED other_vars

\* mutant: the membership test against processed_bands is lost
catalog_branch_no_dedup(band_name, processed) ==
    IF band_name # None THEN "keep" ELSE "non-band"

\* the if / elif / else of lines 122-128
catalog_branch(band_name, processed) ==
    IF band_name # None /\ band_name \notin processed THEN "keep"
    ELSE IF band_name = None THEN "non-band"
    ELSE "duplicate"

\* lines 118-128: classify one discovered file
Catalog ==
    /\ pc = "catalog"
    /\ fi <= Len(jp2_files)
    /\ LET file_path == jp2_files[fi]
           filename == basename(file_path)
           band_name == extract_band_name(filename)
           branch == catalog_branch(band_name, processed_bands)
       IN  IF branch = "keep"
           THEN /\ band_files' = Append(band_files, << file_path, band_name >>)
                /\ processed_bands' = processed_bands \cup { band_name }
                /\ UNCHANGED stdout
           ELSE IF branch = "non-band"
           THEN /\ stdout' = Append(stdout, Diag("Skipping non-band file", filename))
                /\ UNCHANGED << band_files, processed_bands >>
           ELSE /\ stdout' = Append(stdout, Diag("Skipping duplicate band", band_name))
                /\ UNCHANGED << band_files, processed_bands >>
    /\ fi' = fi + 1
    /\ UNCHANGED << exc, env, faults_left, pc, df_lucas, coords_wgs84, yield_files, yi,
                    safe_dir, jp2_files, target_crs, coords_projected,
                    all_band_data, band_data_3x3, bi, pi, src, opened, csv,
                    exit_status >>
    /\ UNCHANGED other_vars

\* mutant: the CRS is taken from the last catalogued band
crs_source_last(files) == files[Len(files)][1]

\* band_files[0][0], the file whose CRS becomes the target
crs_source(files) == files[1][1]

\* lines 130-137: read the CRS of band_files[0]; on an empty list the
\* subscript raises IndexError, which nothing catches
TargetCrs ==
    /\ pc = "catalog"
    /\ fi > Len(jp2_files)
    /\ IF band_files = <<>>
       THEN /\ Abort(Diag("Traceback: IndexError: list index out of range", <<>>))
            /\ UNCHANGED << target_crs, opened >>
       ELSE /\ target_crs' = BandRaster(crs_source(band_files), env.shape, env.levels,
                                         env.crs).crs
            /\ opened' = Append(opened, crs_source(band_files))
            /\ pc' = "reproject"
            /\ UNCHANGED << stdout, exit_status >>
    /\ UNCHANGED << exc, env, faults_left, df_lucas, coords_wgs84, yield_files, yi,
                    safe_dir, jp2_files, band_files, processed_bands, fi,
                    coords_projected, all_band_data, band_data_3x3, bi, pi, src,
                    csv >>
    /\ UNCHANGED other_vars

\* lines 139-146: reproject the points once, start the band loop; to_crs
\* raises ValueError when the CRS is None, which nothing catches
Reproject ==
    /\ pc = "reproject"
    /\ IF target_crs = ""
       THEN /\ Abort(Diag("Traceback: ValueError: Must pass either crs or epsg.", <<>>))
            /\ UNCHANGED << coords_projected, all_band_data, bi >>
       ELSE /\ coords_projected' = [ k \in 1..Len(coords_wgs84) |->
                                       Project(target_crs, coords_wgs84[k]) ]
            /\ all_band_data' = [ columns |-> <<>>, data |-> <<>> ]
            /\ bi' = 1
            /\ pc' = "band_loop"
            /\ UNCHANGED << stdout, exit_status >>
    /\ UNCHANGED << exc, env, faults_left, df_lucas, coords_wgs84, yield_files, yi,
                    safe_dir, jp2_files, band_files, processed_bands, fi,
                    target_crs, band_data_3x3, pi, src, opened, csv >>
    /\ UNCHANGED other_vars

\* lines 148-156: next band: NaN-filled buffer, open the raster
BandOpen ==
    /\ pc = "band_loop"
    /\ bi <= Len(band_files)
    /\ band_data_3x3' = [ k \in 1..Len(coords_projected) |-> NaNRow ]
    /\ src' = Append(src, band_files[bi][1])
    /\ opened' = Append(opened, band_files[bi][1])
    /\ pi' = 1
    /\ pc' = "point_loop"
    /\ UNCHANGED << exc, env, faults_left, df_lucas, coords_wgs84, yield_files, yi,
                    safe_dir, jp2_files, band_files, processed_bands, fi,
                    target_crs, coords_projected, all_band_data, bi, stdout, csv,
                    exit_status >>
    /\ UNCHANGED other_vars

\* what the library calls of one iteration may do: succeed, or raise because
\* the environment makes one fail while it has failures left
library_outcomes(budget) == { "none" } \cup (IF budget > 0 THEN Faults ELSE {})

\* lines 157-172: one point of the open band
SamplePoint ==
    /\ pc = "point_loop"
    /\ pi <= Len(coords_projected)
    /\ \E fault \in library_outcomes(faults_left) :
         LET raster == BandRaster(src[Len(src)], env.shape, env.levels, env.crs)
             r == sample_point(raster, coords_projected[pi], fault)
         IN  /\ band_data_3x3' = [ band_data_3x3 EXCEPT ![pi] = r.row ]
             /\ stdout' = IF r.diag
                          THEN Append(stdout, Diag("Error sampling point",
                                                   << pi - 1, band_files[bi][2] >>))
                          ELSE stdout
             /\ faults_left' = IF fault \in Faults THEN faults_left - 1 ELSE faults_left
             /\ exc' = r.exc
    /\ pi' = pi + 1
    /\ UNCHANGED << env, pc, df_lucas, coords_wgs84, yield_files, yi, safe_dir,
                    jp2_files, band_files, processed_bands, fi, target_crs,
                    coords_projected, all_band_data, bi, src, opened, csv,
                    exit_status >>
    /\ UNCHANGED other_vars

\* the j-th column of the band buffer: band_data_3x3[:, j]
buffer_column(buffer, j) == [ k \in 1..Len(buffer) |-> buffer[k][j] ]

\* all_band_data[col_name] = ... : replaces an existing key, else appends
set_key(dict, key, value) ==
    IF \E j \in 1..Len(dict.columns) : dict.columns[j] = key
    THEN [ dict EXCEPT !.data[CHOOSE j \in 1..Len(dict.columns) : dict.columns[j] = key] = value ]
    ELSE [ columns |-> Append(dict.columns, key), data |-> Append(dict.data, value) ]

RECURSIVE store_band(_, _, _, _)
store_band(dict, band_name, buffer, j) ==
    IF j > 9 THEN dict
    ELSE store_band(set_key(dict, neighbor_col(band_name, j), buffer_column(buffer, j)),
                    band_name, buffer, j + 1)

\* end of the with-block and lines 174-176: close, keep the 9 columns
BandClose ==
    /\ pc = "point_loop"
    /\ pi > Len(coords_projected)
    /\ src' = SubSeq(src, 1, Len(src) - 1)
    /\ all_band_data' = store_band(all_band_data, band_files[bi][2], band_data_3x3, 1)
    /\ bi' = bi + 1
    /\ pc' = "band_loop"
    /\ UNCHANGED << exc, env, faults_left, df_lucas, coords_wgs84, yield_files, yi,
                    safe_dir, jp2_files, band_files, processed_bands, fi,
                    target_crs, coords_projected, band_data_3x3, pi, opened,
                    stdout, csv, exit_status >>
    /\ UNCHANGED other_vars

\* lines 178-181: band_df = pd.DataFrame(all_band_data); concat to df_lucas
ConcatBands ==
    /\ pc = "band_loop"
    /\ bi > Len(band_files)
    /\ LET band_df == DataFrame(all_band_data.columns, all_band_data.data,
                                RangeIndex(Len(coords_projected)))
       IN  df_lucas' = concat(df_lucas, band_df)
    /\ pc' = "indices"
    /\ UNCHANGED << exc, env, faults_left, coords_wgs84, yield_files, yi, safe_dir,
                    jp2_files, band_files, processed_bands, fi, target_crs,
                    coords_projected, all_band_data, band_data_3x3, bi, pi, src,
                    opened, stdout, csv, exit_status >>
    /\ UNCHANGED other_vars

\* lines 183-222: vegetation indices, concat, inf -> NaN
VegetationIndices ==
    /\ pc = "indices"
    /\ LET vi_data == vi_entries(df_lucas)
           vi_df == DataFrame([ j \in 1..Len(vi_data) |-> vi_data[j].name ],
                              [ j \in 1..Len(vi_data) |-> vi_data[j].values ],
                              df_lucas.index)
       IN  df_lucas' = replace_inf(concat(df_lucas, vi_df))
    /\ pc' = "save"
    /\ UNCHANGED << exc, env, faults_left, coords_wgs84, yield_files, yi, safe_dir,
                    jp2_files, band_files, processed_bands, fi, target_crs,
                    coords_projected, all_band_data, band_data_3x3, bi, pi, src,
                    opened, stdout, csv, exit_status >>
    /\ UNCHANGED other_vars

\* lines 224-240: write the CSV, the script ends with status 0
Save ==
    /\ pc = "save"
    /\ csv' = Append(csv, df_lucas)
    /\ exit_status' = 0
    /\ pc' = "done"
    /\ UNCHANGED << exc, env, faults_left, df_lucas, coords_wgs84, yield_files, yi,
                    safe_dir, jp2_files, band_files, processed_bands, fi,
                    target_crs, coords_projected, all_band_data, band_data_3x3,
                    bi, pi, src, opened, stdout >>
    /\ UNCHANGED other_vars

Next ==
    \/ Load
    \/ ListYield
    \/ SampleYield
    \/ FindSafe
    \/ FindJp2
    \/ Catalog
    \/ TargetCrs
    \/ Reproject
    \/ BandOpen
    \/ SamplePoint
    \/ BandClose
    \/ ConcatBands
    \/ VegetationIndices
    \/ Save

Spec == Init /\ [][Next]_vars
SpecCatalog == InitCatalog /\ [][Next]_vars
SpecSampling == InitSampling /\ [][Next]_vars
\* runs over every placing of the points and every nodata declaration
SpecYield == InitOf(EnvYield \cup EnvMissing) /\ [][Next]_vars
\* runs over every subset of the index bands
SpecIndices == InitOf(EnvBands \cup EnvValues \cup EnvMissing) /\ [][Next]_vars
\* runs of the survey with one point outside the rasters
SpecScenario == InitOf(EnvScenario \cup EnvMissing) /\ [][Next]_vars
\* runs over every placing of the points and both orders of the granules
SpecTiles == InitOf(EnvTiles \cup EnvMissing) /\ [][Next]_vars

\* ------------------------------------------------- orchestrator (actions)
\* mutant: the child is run without check=True, a non-zero status raises
\* nothing
subprocess_run_unchecked(child) ==
    IF child.launch # "ok" THEN [ raised |-> child.launch, returncode |-> 0 - 1 ]
    ELSE [ raised |-> "none", returncode |-> IF child.present THEN child.status ELSE 2 ]

\* subprocess.run(command, check=True): launching the interpreter may raise;
\* the interpreter exits with 2 when the script file is missing; a non-zero
\* status raises CalledProcessError
subprocess_run(child) ==
    IF child.launch # "ok" THEN [ raised |-> child.launch, returncode |-> 0 - 1 ]
    ELSE LET returncode == IF child.present THEN child.status ELSE 2
         IN  IF returncode # 0
             THEN [ raised |-> "CalledProcessError", returncode |-> returncode ]
             ELSE [ raised |-> "none", returncode |-> 0 ]

\* the except clauses of run_script: what is printed for what was raised
failure_report(script_path, result) ==
    IF result.raised = "FileNotFoundError"
    THEN << Diag("FAILED: Script not found at", script_path) >>
    ELSE IF result.raised = "CalledProcessError"
    THEN << Diag("FAILED:", script_path), Diag("Return code:", result.returncode) >>
    ELSE << Diag("FAILED: An unexpected error occurred with", script_path),
            Diag("Error:", result.raised) >>

\* main, lines 55-65: banner, change to the project root
OrchMain ==
    /\ orch.pc = "main"
    /\ orch' = [ orch EXCEPT !.out = Append(@, Diag("Starting the NPK Prediction Pipeline", <<>>)),
                              !.i = 1,
                              !.pc = "loop" ]
    /\ UNCHANGED << raster_vars, acq, wx >>

\* lines 67-68 and 22-31: the next script is handed to subprocess.run, which
\* launches the interpreter or raises
StartScript ==
    /\ orch.pc = "loop"
    /\ orch.i <= Len(SCRIPT_PIPELINE)
    /\ LET script_path == SCRIPT_PIPELINE[orch.i]
           result == subprocess_run(orch.children[orch.i])
           begun == [ orch EXCEPT !.started = Append(@, script_path),
                                  !.out = Append(@, Diag("Starting:", script_path)) ]
       IN  IF result.raised \notin { "none", "CalledProcessError" }
           THEN orch' = [ begun EXCEPT
                            !.finished = Append(@, result),
                            !.out = @ \o failure_report(script_path, result)
                                      \o << Diag("Pipeline HALTED at", script_path) >>,
                            !.exit = 1,
                            !.pc = "exit" ]
           ELSE orch' = [ begun EXCEPT !.pc = "child" ]
    /\ UNCHANGED << raster_vars, acq, wx >>

\* lines 31-49 and 68-70: the child has ended; run_script returns True, or
\* reports the failure and main halts
FinishScript ==
    /\ orch.pc = "child"
    /\ LET script_path == SCRIPT_PIPELINE[orch.i]
           result == subprocess_run(orch.children[orch.i])
       IN  IF result.raised = "none"
           THEN orch' = [ orch EXCEPT !.finished = Append(@, result),
                                      !.out = Append(@, Diag("Finished:", script_path)),
                                      !.i = @ + 1,
                                      !.pc = "loop" ]
           ELSE orch' = [ orch EXCEPT
                            !.finished = Append(@, result),
                            !.out = @ \o failure_report(script_path, result)
                                      \o << Diag("Pipeline HALTED at", script_path) >>,
                            !.exit = 1,
                            !.pc = "exit" ]
    /\ UNCHANGED << raster_vars, acq, wx >>

\* line 72: every script returned True
Complete ==
    /\ orch.pc = "loop"
    /\ orch.i > Len(SCRIPT_PIPELINE)
    /\ orch' = [ orch EXCEPT !.out = Append(@, Diag("Pipeline Completed Successfully", <<>>)),
                              !.exit = 0,
                              !.pc = "exit" ]
    /\ UNCHANGED << raster_vars, acq, wx >>

NextOrchestrator ==
    \/ OrchMain
    \/ StartScript
    \/ FinishScript
    \/ Complete

\* the orchestrator over every combination of what the four scripts do
InitOrchestrator ==
    /\ RasterInit({ Env(FALSE, <<>>, FALSE, <<>>, <<>>, TreeOf(<<>>), << 1, 1 >>, 0) }, "none")
    /\ orch \in { Orchestrator(c) : c \in [ 1..Len(SCRIPT_PIPELINE) ->
                      { Child("ok", TRUE, 0), Child("ok", TRUE, 1), Child("ok", FALSE, 0),
                        Child("FileNotFoundError", TRUE, 0),
                        Child("PermissionError", TRUE, 0) } ] }
    /\ acq = NoAcquisition
    /\ wx = NoWeather

SpecOrchestrator == InitOrchestrator /\ [][NextOrchestrator]_vars

\* -------------------------------------------------- acquisition (actions)
\* the script ends here: by exit(status), or with status 0 after its last
\* statement
AcqExit(a, status, message) ==
    [ a EXCEPT !.out = Append(@, Diag(message, <<>>)), !.exit = status, !.pc = "exit" ]

\* lines 29-46: request an access token
Authenticate ==
    /\ acq.pc = "authenticate"
    /\ \E response \in { "ok", "error" } :
         acq' = IF response = "ok" THEN [ acq EXCEPT !.pc = "read_lucas" ]
                ELSE AcqExit(acq, 1, "FAILED to authenticate")
    /\ UNCHANGED << raster_vars, orch, wx >>

\* lines 48-64: read the ground truth for the bounding box
ReadLucas ==
    /\ acq.pc = "read_lucas"
    /\ acq' = IF acq.lucas THEN [ acq EXCEPT !.pc = "query" ]
              ELSE AcqExit(acq, 1, "Error: LUCAS file not found")
    /\ UNCHANGED << raster_vars, orch, wx >>

\* lines 66-102: query the catalogue; exit() without an argument ends the
\* script with status 0
QueryProducts ==
    /\ acq.pc = "query"
    /\ \/ acq' = AcqExit(acq, 1, "FAILED to query products")
       \/ \E found \in 0..MaxProducts :
            acq' = IF found = 0
                   THEN AcqExit(acq, 0, "No products found for the given criteria")
                   ELSE [ acq EXCEPT !.products = [ k \in 1..found |-> k ],
                                     !.n = 1,
                                     !.filtered_products = <<>>,
                                     !.pc = "filter" ]
    /\ UNCHANGED << raster_vars, orch, wx >>

\* lines 106-129: one product of the result: look up its cloud cover
\* (nothing, also when the details request failed, or a percentage), keep
\* it if that is unknown or at most CLOUD_COVER
FilterProduct ==
    /\ acq.pc = "filter"
    /\ acq.n <= Len(acq.products)
    /\ \E cloud_cover \in { None, << 5 >>, << CLOUD_COVER >>, << 50 >> } :
         acq' = [ acq EXCEPT
                    !.filtered_products =
                        IF cloud_cover = None \/ cloud_cover[1] <= CLOUD_COVER
                        THEN Append(@, [ Id |-> acq.products[acq.n], CloudCover |-> cloud_cover ])
                        ELSE @,
                    !.n = @ + 1 ]
    /\ UNCHANGED << raster_vars, orch, wx >>

\* lines 131-153: fall back to the first product when none passed; select
\* the first of the list
SelectProduct ==
    /\ acq.pc = "filter"
    /\ acq.n > Len(acq.products)
    /\ LET filtered_products ==
               IF acq.filtered_products = <<>>
               THEN << [ Id |-> acq.products[1], CloudCover |-> "Unknown" ] >>
               ELSE acq.filtered_products
       IN  acq' = [ acq EXCEPT !.filtered_products = filtered_products,
                               !.product_id = filtered_products[1].Id,
                               !.pc = "head" ]
    /\ UNCHANGED << raster_vars, orch, wx >>

\* lines 155-160 and 205-210: the pre-flight HEAD request; a request that
\* raises is caught at line 326
PreFlight ==
    /\ acq.pc = "head"
    /\ \/ acq' = AcqExit(acq, 1, "FAILED during download or unzip")
       \/ \E status_code \in { 200, 404 } :
            acq' = [ acq EXCEPT !.status_code = status_code,
                                !.pc = IF status_code = 200 THEN "download" ELSE "alt1" ]
    /\ UNCHANGED << raster_vars, orch, wx >>

\* lines 163-184: GET the archive; raise_for_status raises HTTPError, any
\* other failure of the request or of the stream is caught at line 326; an
\* archive already on disk is not written again
Download ==
    /\ acq.pc = "download"
    /\ \/ \E status_code \in { 422, 500 } :
            acq' = [ acq EXCEPT !.status_code = status_code, !.pc = "http_error" ]
       \/ acq' = AcqExit(acq, 1, "FAILED during download or unzip")
       \/ /\ acq.zip # "absent"
          /\ acq' = [ acq EXCEPT !.pc = "unzip" ]
       \/ /\ acq.zip = "absent"
          /\ \E body \in { "valid", "invalid" } :
               acq' = [ acq EXCEPT !.zip = body, !.downloaded = TRUE, !.pc = "unzip" ]
       \/ /\ acq.zip = "absent"
          /\ acq' = AcqExit([ acq EXCEPT !.zip = "invalid" ], 1,
                            "FAILED during download or unzip")
    /\ UNCHANGED << raster_vars, orch, wx >>

\* lines 186-203: extract the archive; BadZipFile is reported and the
\* script goes on to its end
Unzip ==
    /\ acq.pc = "unzip"
    /\ acq' = IF acq.zip = "valid"
              THEN AcqExit([ acq EXCEPT !.extracted = TRUE ], 0,
                          "Download and extraction complete")
              ELSE AcqExit(acq, 0, "Error: The downloaded file is not a valid ZIP file")
    /\ UNCHANGED << raster_vars, orch, wx >>

\* an alternative endpoint: GET, write the archive over whatever is there,
\* extract it; body is "error" when the request fails
alternative(a, body) ==
    IF body = "error" THEN a
    ELSE [ a EXCEPT !.zip = body, !.downloaded = TRUE, !.extracted = (body = "valid") ]

\* lines 212-244: first alternative endpoint; any exception leads to the
\* second one
Alternative1 ==
    /\ acq.pc = "alt1"
    /\ \E body \in { "valid", "invalid", "error" } :
         acq' = IF body = "valid"
                THEN AcqExit(alternative(acq, body), 0, "Download and extraction complete")
                ELSE [ alternative(acq, body) EXCEPT
                         !.out = Append(@, Diag("Alternative 1 failed", <<>>)),
                         !.pc = "alt2" ]
    /\ UNCHANGED << raster_vars, orch, wx >>

\* lines 246-284: second alternative endpoint; any exception ends the
\* script with status 1
Alternative2 ==
    /\ acq.pc = "alt2"
    /\ \E body \in { "valid", "invalid", "error" } :
         acq' = IF body = "valid"
                THEN AcqExit(alternative(acq, body), 0, "Download and extraction complete")
                ELSE AcqExit(alternative(acq, body), 1, "All download attempts failed")
    /\ UNCHANGED << raster_vars, orch, wx >>

\* lines 286-325: HTTPError of the download: for status 422 one more
\* endpoint is tried, whose failure is only reported; the script then
\* reaches its end
HttpErrorFallback ==
    /\ acq.pc = "http_error"
    /\ IF acq.status_code = 422
       THEN \E body \in { "valid", "invalid", "error" } :
              acq' = IF body = "valid"
                     THEN AcqExit(alternative(acq, body), 0, "Download and extraction complete")
                     ELSE AcqExit(alternative(acq, body), 0, "Alternative download also failed")
       ELSE acq' = AcqExit(acq, 0, "HTTP Error during download")
    /\ UNCHANGED << raster_vars, orch, wx >>

NextAcquisition ==
    \/ Authenticate
    \/ ReadLucas
    \/ QueryProducts
    \/ FilterProduct
    \/ SelectProduct
    \/ PreFlight
    \/ Download
    \/ Unzip
    \/ Alternative1
    \/ Alternative2
    \/ HttpErrorFallback

\* the acquisition stage run on its own, with or without the ground-truth
\* file and an earlier archive on disk
InitAcquisition ==
    /\ RasterInit({ Env(FALSE, <<>>, FALSE, <<>>, <<>>, TreeOf(<<>>), << 1, 1 >>, 0) }, "none")
    /\ orch = NoOrchestrator
    /\ acq \in { Acquisition(lucas, zip) :
                    lucas \in BOOLEAN, zip \in { "absent", "valid", "invalid" } }
    /\ wx = NoWeather

SpecAcquisition == InitAcquisition /\ [][NextAcquisition]_vars

\* ------------------------------------------------------ weather (actions)
WxExit(w, status, message) ==
    [ w EXCEPT !.out = Append(@, Diag(message, <<>>)), !.exit = status, !.pc = "exit" ]

\* lines 21-29: load the table of the raster stage
LoadData ==
    /\ wx.pc = "load"
    /\ wx' = IF wx.input
             THEN [ wx EXCEPT !.df = wx.raw, !.loaded = TRUE, !.pc = "dates" ]
             ELSE WxExit(wx, 1, "Error: input not found")
    /\ UNCHANGED << raster_vars, orch, acq >>

\* lines 37-52: pd.to_datetime of the first date column; the default date
\* 2018-05-15 when there is none or it cannot be parsed
to_datetime(date_column, date) ==
    IF date_column = "dates" THEN date ELSE 5

RECURSIVE drop_duplicates(_)
\* line 100: the first occurrence of every (lat, lon, date), in order
drop_duplicates(rows) ==
    IF rows = <<>> THEN <<>>
    ELSE LET front == drop_duplicates(SubSeq(rows, 1, Len(rows) - 1))
             last  == rows[Len(rows)]
         IN  IF \E k \in 1..Len(front) : front[k] = last THEN front ELSE Append(front, last)

\* lines 31-61 and 99-104: the date column, the weather columns (NaN) and
\* the unique locations
HandleDates ==
    /\ wx.pc = "dates"
    /\ LET df == [ k \in 1..Len(wx.df) |->
                    [ TH_LAT |-> wx.df[k].TH_LAT, TH_LONG |-> wx.df[k].TH_LONG,
                      SURVEY_DATE_dt |-> to_datetime(wx.date_column, wx.df[k].date),
                      weather |-> [ c \in WeatherColumns |-> "nan" ] ] ]
       IN  wx' = [ wx EXCEPT
                     !.df = df,
                     !.unique_coords_dates =
                         drop_duplicates([ k \in 1..Len(df) |->
                             << df[k].TH_LAT, df[k].TH_LONG, df[k].SURVEY_DATE_dt >> ]),
                     !.n = 1, !.success_count = 0, !.fail_count = 0,
                     !.pc = "fetch" ]
    /\ UNCHANGED << raster_vars, orch, acq >>

\* lines 64-97: what fetch_weather_data returns: None (a status other than
\* 200, an exception, a body without 'daily'), or a value or NaN for each
\* variable
FetchResults ==
    { None,
      [ v \in { WEATHER_VARIABLES[k] : k \in 1..Len(WEATHER_VARIABLES) } |-> "api" ],
      [ v \in { WEATHER_VARIABLES[k] : k \in 1..Len(WEATHER_VARIABLES) } |->
            IF v = "precipitation_sum" THEN "nan" ELSE "api" ],
      [ v \in { WEATHER_VARIABLES[k] : k \in 1..Len(WEATHER_VARIABLES) } |-> "nan" ] }

\* lines 115-151: the rows of this latitude, longitude and date get the
\* fetched values, or simulated ones when nothing was fetched
update_rows(df, loc, weather_data) ==
    [ k \in 1..Len(df) |->
        IF df[k].TH_LAT = loc[1] /\ df[k].TH_LONG = loc[2] /\ df[k].SURVEY_DATE_dt = loc[3]
        THEN [ df[k] EXCEPT !.weather =
                 IF weather_data # None
                 THEN [ c \in WeatherColumns |->
                          weather_data[CHOOSE v \in DOMAIN weather_data : simple_name(v) = c] ]
                 ELSE [ c \in WeatherColumns |-> "simulated" ] ]
        ELSE df[k] ]

\* lines 106-158: one location of the loop; strftime of a missing date
\* raises ValueError, which nothing catches
FetchLocation ==
    /\ wx.pc = "fetch"
    /\ wx.n <= Len(wx.unique_coords_dates)
    /\ LET loc == wx.unique_coords_dates[wx.n]
       IN  IF loc[3] = NaT
           THEN wx' = WxExit(wx, 1, "Traceback: ValueError: NaTType does not support strftime")
           ELSE \E weather_data \in FetchResults :
                  wx' = [ wx EXCEPT
                            !.df = update_rows(wx.df, loc, weather_data),
                            !.success_count = IF weather_data # None THEN @ + 1 ELSE @,
                            !.fail_count = IF weather_data # None THEN @ ELSE @ + 1,
                            !.n = @ + 1 ]
    /\ UNCHANGED << raster_vars, orch, acq >>

\* lines 160-193: rows that still miss a value get simulated ones
FillRemaining ==
    /\ wx.pc = "fetch"
    /\ wx.n > Len(wx.unique_coords_dates)
    /\ wx' = [ wx EXCEPT
                 !.df = [ k \in 1..Len(wx.df) |->
                            IF \E c \in WeatherColumns : wx.df[k].weather[c] = "nan"
                            THEN [ wx.df[k] EXCEPT !.weather = [ c \in WeatherColumns |-> "simulated" ] ]
                            ELSE wx.df[k] ],
                 !.pc = "seasonal" ]
    /\ UNCHANGED << raster_vars, orch, acq >>

\* lines 202-207
seasons ==
    [ winter |-> { 12, 1, 2 }, spring |-> { 3, 4, 5 },
      summer |-> { 6, 7, 8 }, fall |-> { 9, 10, 11 } ]

\* lines 195-212: the month and the four season indicators
SeasonalFeatures ==
    /\ wx.pc = "seasonal"
    /\ wx' = [ wx EXCEPT
                 !.df = [ k \in 1..Len(wx.df) |->
                            [ TH_LAT |-> wx.df[k].TH_LAT, TH_LONG |-> wx.df[k].TH_LONG,
                              SURVEY_DATE_dt |-> wx.df[k].SURVEY_DATE_dt,
                              weather |-> wx.df[k].weather,
                              month |-> wx.df[k].SURVEY_DATE_dt,
                              is_season |-> [ s \in DOMAIN seasons |->
                                  IF wx.df[k].SURVEY_DATE_dt \in seasons[s] THEN 1 ELSE 0 ] ] ],
                 !.pc = "save" ]
    /\ UNCHANGED << raster_vars, orch, acq >>

\* lines 214-229: drop the temporary columns, make the directory, write
\* the table; a name no import has bound raises NameError, which nothing
\* catches
SaveFinal ==
    /\ wx.pc = "save"
    /\ LET df == [ k \in 1..Len(wx.df) |->
                    [ TH_LAT |-> wx.df[k].TH_LAT, TH_LONG |-> wx.df[k].TH_LONG,
                      weather |-> wx.df[k].weather, is_season |-> wx.df[k].is_season ] ]
       IN  wx' = IF "os" \in imports
                 THEN WxExit([ wx EXCEPT !.df = df, !.written = << df >> ], 0,
                             "Success! Final dataset with all features saved")
                 ELSE WxExit([ wx EXCEPT !.df = df ], 1,
                             "Traceback: NameError: name 'os' is not defined")
    /\ UNCHANGED << raster_vars, orch, acq >>

NextWeather ==
    \/ LoadData
    \/ HandleDates
    \/ FetchLocation
    \/ FillRemaining
    \/ SeasonalFeatures
    \/ SaveFinal

\* the weather stage run on its own, with or without its input table; the
\* input has no date column, one whose text parses, or one whose text does
\* not
InitWeather ==
    /\ RasterInit({ Env(FALSE, <<>>, FALSE, <<>>, <<>>, TreeOf(<<>>), << 1, 1 >>, 0) }, "none")
    /\ orch = NoOrchestrator
    /\ acq = NoAcquisition
    /\ wx \in { Weather(input, date_column, raw) :
                   input \in BOOLEAN, date_column \in { "none", "dates", "text" },
                   raw \in UNION { Tables(n) : n \in 0..MaxRows } }

SpecWeather == InitWeather /\ [][NextWeather]_vars

\* =================================================================== claims
\* the diagnostics of one kind, in the order printed
DiagArgs(kind) ==
    LET OfKind(d) == d.kind = kind
        hits == SelectSeq(stdout, OfKind)
    IN  [ k \in 1..Len(hits) |-> hits[k].arg ]

\* ---- C1
\* identifier the catalog loop gave the i-th discovered file
BandOf(i) == extract_band_name(basename(jp2_files[i]))
Bands == [ i \in 1..Len(jp2_files) |-> BandOf(i) ]

\* the first n discovered files that are the first of their band, in order
RECURSIVE FirstOccurrences(_, _)
FirstOccurrences(bands, n) ==
    IF n = 0 THEN <<>>
    ELSE FirstOccurrences(bands, n - 1) \o
         (IF bands[n] # None /\ \A j \in 1..(n - 1) : bands[j] # bands[n]
          THEN << << jp2_files[n], bands[n] >> >> ELSE <<>>)

\* the identifiers of the first n discovered files that repeat an earlier one
RECURSIVE Repeats(_, _)
Repeats(bands, n) ==
    IF n = 0 THEN <<>>
    ELSE Repeats(bands, n - 1) \o
         (IF bands[n] # None /\ \E j \in 1..(n - 1) : bands[j] = bands[n]
          THEN << bands[n] >> ELSE <<>>)

\* C1: at every point of the catalog loop and after it, band_files has no two
\* entries with the same band identifier, it is exactly the files processed
\* so far that are the first of their identifier, in traversal order, and
\* the 'Skipping duplicate band' diagnostics are exactly the later files of
\* an identifier already seen, in order.
C1_CatalogDeduplicated ==
    /\ \A i, j \in 1..Len(band_files) : i # j => band_files[i][2] # band_files[j][2]
    /\ band_files = FirstOccurrences(Bands, fi - 1)
    /\ DiagArgs("Skipping duplicate band") = Repeats(Bands, fi - 1)
    /\ processed_bands = { band_files[i][2] : i \in 1..Len(band_files) }

\* the loop has finished over a listing in which a band came twice
C1_Witness ==
    /\ pc = "reproject"
    /\ fi > Len(jp2_files)
    /\ Len(jp2_files) >= 2
    /\ Len(band_files) >= 1
    /\ DiagArgs("Skipping duplicate band") # <<>>

\* ---- C7
\* a marker occurs somewhere in the name (stated on characters)
HasAuxMarker(name) ==
    \E i \in 1..(Len(name) - 2) :
        << name[i], name[i + 1], name[i + 2] >> \in
            { <<"A","O","T">>, <<"T","C","I">>, <<"W","V","P">>, <<"S","C","L">> }

\* the 13 codes of the strict rule
StrictCodes ==
    { <<"B","0",d>> : d \in {"1","2","3","4","5","6","7","8","9"} }
        \cup { <<"B","1","0">>, <<"B","1","1">>, <<"B","1","2">>, <<"B","8","A">> }

\* a strict code stands between two underscores somewhere in the name
HasStrictCode(name) ==
    \E i \in 1..(Len(name) - 4) :
        /\ name[i] = "_" /\ name[i + 4] = "_"
        /\ << name[i + 1], name[i + 2], name[i + 3] >> \in StrictCodes

LastUnderscore(name) ==
    CHOOSE i \in 0..Len(name) :
        /\ i > 0 => name[i] = "_"
        /\ \A j \in (i + 1)..Len(name) : name[j] # "_"

\* what stands between the last underscore and the final .jp2, or None
AfterLastUnderscore(name) ==
    IF LastUnderscore(name) > 0 /\ Len(name) - LastUnderscore(name) >= 4
         /\ SubSeq(name, Len(name) - 3, Len(name)) = JP2
    THEN SubSeq(name, LastUnderscore(name) + 1, Len(name) - 4)
    ELSE None

HasFallbackCode(name) ==
    /\ Len(AfterLastUnderscore(name)) = 3
    /\ \A k \in 1..3 : AfterLastUnderscore(name)[k] \in UpperAlnum

\* C7: every discovered file whose name contains AOT, TCI, WVP or SCL gets
\* no identifier, whatever else its name matches; no entry of band_files is
\* such a file, and every neighbourhood column kept belongs to a band of
\* band_files.
C7_AuxiliaryExcluded ==
    /\ \A i \in 1..Len(jp2_files) : HasAuxMarker(basename(jp2_files[i])) => BandOf(i) = None
    /\ \A i \in 1..Len(band_files) : ~HasAuxMarker(basename(band_files[i][1]))
    /\ LET kept == { neighbor_col(band_files[i][2], k) :
                        i \in 1..Len(band_files), k \in 1..9 }
       IN  \A j \in 1..Len(all_band_data.columns) : all_band_data.columns[j] \in kept
    /\ \A i \in 1..(fi - 1) :
         HasAuxMarker(basename(jp2_files[i])) =>
            \E d \in 1..Len(stdout) :
                stdout[d] = Diag("Skipping non-band file", basename(jp2_files[i]))

\* a file carrying a marker and a strict band code was classified and left
\* out, while another file of the same listing was kept and sampled
C7_Witness ==
    /\ pc = "done"
    /\ Len(band_files) >= 1
    /\ \E i \in 1..Len(jp2_files) :
         /\ HasAuxMarker(basename(jp2_files[i]))
         /\ HasStrictCode(basename(jp2_files[i]))
         /\ \A b \in 1..Len(band_files) : band_files[b][1] # jp2_files[i]

\* ---- C8
\* C8: for every discovered file without an auxiliary marker: if a strict
\* code stands between underscores the identifier is such a code of the name
\* (whatever the fallback rule would give); otherwise, if exactly three
\* upper-case alphanumerics stand between the last underscore and .jp2, the
\* identifier is those three; otherwise there is none, and once the loop has
\* passed the file a 'Skipping non-band file' diagnostic names it.  Each
\* entry of band_files carries the identifier of its file.
C8_PatternOrder ==
    /\ \A i \in 1..Len(jp2_files) :
         LET name == basename(jp2_files[i])
         IN  ~HasAuxMarker(name) =>
               IF HasStrictCode(name)
               THEN /\ BandOf(i) \in StrictCodes
                    /\ Contains(name, <<"_">> \o BandOf(i) \o <<"_">>)
               ELSE IF HasFallbackCode(name)
               THEN BandOf(i) = AfterLastUnderscore(name)
               ELSE /\ BandOf(i) = None
                    /\ i < fi => \E d \in 1..Len(stdout) :
                                    stdout[d] = Diag("Skipping non-band file", name)
    /\ \A b \in 1..Len(band_files) :
         \E i \in 1..(fi - 1) :
            band_files[b] = << jp2_files[i], BandOf(i) >>
    /\ Len(DiagArgs("Skipping non-band file")) =
         Cardinality({ i \in 1..(fi - 1) : BandOf(i) = None })

\* a file whose strict code differs from what the fallback rule would give
\* was kept under the strict code, and a file matching neither rule was
\* reported
C8_Witness ==
    /\ fi > Len(jp2_files)
    /\ \E b \in 1..Len(band_files) :
         LET name == basename(band_files[b][1])
         IN  /\ HasStrictCode(name)
             /\ HasFallbackCode(name)
             /\ AfterLastUnderscore(name) # band_files[b][2]
    /\ \E i \in 1..Len(jp2_files) :
         LET name == basename(jp2_files[i])
         IN  /\ ~HasAuxMarker(name) /\ ~HasStrictCode(name) /\ ~HasFallbackCode(name)
             /\ \E d \in 1..Len(stdout) : stdout[d] = Diag("Skipping non-band file", name)

\* ---- geometry of a point relative to a band raster
PixelRange == (0 - 4)..(MaxH + MaxW + 4)

\* the pixel whose cell contains the coordinate: x0 + c*ps <= x < x0 + (c+1)*ps
\* and y0 - (r+1)*ps < y <= y0 - r*ps
ContainingPixel(raster, xy) ==
    << CHOOSE r \in PixelRange :
          /\ raster.y0 - (r + 1) * raster.ps < xy[2]
          /\ xy[2] <= raster.y0 - r * raster.ps,
       CHOOSE c \in PixelRange :
          /\ raster.x0 + c * raster.ps <= xy[1]
          /\ xy[1] < raster.x0 + (c + 1) * raster.ps >>

PixelInside(raster, rc) ==
    /\ 0 <= rc[1] /\ rc[1] < raster.height
    /\ 0 <= rc[2] /\ rc[2] < raster.width

WindowInside(raster, rc) ==
    /\ 1 <= rc[1] /\ rc[1] + 1 < raster.height
    /\ 1 <= rc[2] /\ rc[2] + 1 < raster.width

\* the raster of the b-th catalogued band, and the pixel of point k in it
RasterOf(b) == BandRaster(band_files[b][1], env.shape, env.levels, env.crs)
PixelOf(b, k) == ContainingPixel(RasterOf(b), coords_projected[k])

NoFaultInjected == faults_left = env.faults

AllNaN(row) == \A j \in 1..9 : row[j] = NaN
NoneNaN(row) == \A j \in 1..9 : row[j] # NaN

\* ---- C2
\* C2: in the point loop of a band, every point already sampled whose pixel
\* is inside the raster while its 3x3 window crosses the boundary has NaN in
\* all 9 cells, and no sampled row mixes NaN with pixel values.
C2_EdgePatchAllSentinel ==
    pc = "point_loop" =>
        \A k \in 1..(pi - 1) :
            /\ (PixelInside(RasterOf(bi), PixelOf(bi, k))
                  /\ ~WindowInside(RasterOf(bi), PixelOf(bi, k)))
                 => AllNaN(band_data_3x3[k])
            /\ AllNaN(band_data_3x3[k]) \/ NoneNaN(band_data_3x3[k])

\* ---- C3
\* C3: in the point loop of a band, every point already sampled whose pixel
\* index is outside the raster (row < 0, row >= height, col < 0 or
\* col >= width) has NaN in all 9 cells.
C3_OutsidePatchAllSentinel ==
    pc = "point_loop" =>
        \A k \in 1..(pi - 1) :
            ~PixelInside(RasterOf(bi), PixelOf(bi, k)) => AllNaN(band_data_3x3[k])

\* ---- C4
\* one iteration of the point loop absorbs whatever was raised
C4_Step ==
    (pc = "point_loop" /\ pi <= Len(coords_projected)) =>
        /\ pc' = "point_loop" /\ pi' = pi + 1 /\ bi' = bi
        /\ exit_status' = Running
        /\ src' = src
        /\ \A k \in 1..Len(band_data_3x3) :
             k # pi => band_data_3x3'[k] = band_data_3x3[k]
        /\ all_band_data' = all_band_data
        /\ df_lucas' = df_lucas
        /\ exc' # "none" => AllNaN(band_data_3x3'[pi])
        /\ IF exc' \in { "none", "ValueError", "IndexError", "WindowError" }
           THEN stdout' = stdout
           ELSE stdout' = Append(stdout, Diag("Error sampling point",
                                              << pi - 1, band_files[bi][2] >>))

\* a run never ends in failure once sampling has begun, and a finished run
\* has a cell for every point in each of the 9 columns of every band
C4_Run ==
    /\ exit_status = 1 => (pc = "exit" /\ bi = 1 /\ pi = 1 /\ src = <<>>
                             /\ all_band_data.columns = <<>>)
    /\ pc = "done" =>
         \A b \in 1..Len(band_files), j \in 1..9 :
            /\ HasColumn(csv[1], neighbor_col(band_files[b][2], j))
            /\ Len(Column(csv[1], neighbor_col(band_files[b][2], j))) = Len(env.rows)

\* C4: whatever the try block of one point raises, the iteration ends with
\* that point's row all NaN, the rows of the other points, the columns of
\* earlier bands and the table unchanged, the loop at the next point and the
\* run still going; a diagnostic is printed exactly when the exception is
\* not a ValueError, IndexError or WindowError; no run fails after sampling
\* began and every finished run holds all 9 columns of every band.
C4_FailureAbsorbed == [][C4_Step]_vars /\ []C4_Run

\* a read failure at the first point of the first band was reported, and
\* the second point of that band and the first point of the second band
\* hold pixel values in the table written
C4_Witness ==
    /\ pc = "done"
    /\ Len(band_files) >= 2 /\ Len(env.rows) >= 2
    /\ \E d \in 1..Len(stdout) :
         stdout[d] = Diag("Error sampling point", << 0, band_files[1][2] >>)
    /\ Column(csv[1], neighbor_col(band_files[1][2], 5))[1] = NaN
    /\ Column(csv[1], neighbor_col(band_files[1][2], 5))[2] # NaN
    /\ Column(csv[1], neighbor_col(band_files[2][2], 5))[1] # NaN

\* ---- C5
\* C5: the table of a completed run has one row per ground-truth point, in
\* the original order: its index is 0..n-1, its coordinate columns are the
\* input coordinates in input order and every column has n cells; it is
\* written once; the table keeps that shape after each concat.
C5_RowsPreserved ==
    /\ pc \in { "indices", "save", "done" } =>
         /\ df_lucas.index = RangeIndex(Len(env.rows))
         /\ \A j \in 1..Len(df_lucas.data) : Len(df_lucas.data[j]) = Len(env.rows)
    /\ pc = "done" =>
         /\ Len(csv) = 1
         /\ Len(band_files) >= 1
         /\ csv[1].index = RangeIndex(Len(env.rows))
         /\ Len(csv[1].columns) = Len(csv[1].data)
         /\ \A j \in 1..Len(csv[1].data) : Len(csv[1].data[j]) = Len(env.rows)
         /\ \A k \in 1..Len(env.rows) :
              /\ Column(csv[1], TH_LONG)[k] = Float(env.rows[k][1])
              /\ Column(csv[1], TH_LAT)[k] = Float(env.rows[k][2])

\* a completed run over two or more points, one inside and one outside the
\* rasters, with a scalar raster and both bands
C5_Witness ==
    /\ pc = "done"
    /\ Len(env.rows) >= 2
    /\ Len(yield_files) >= 1
    /\ Len(band_files) >= 2
    /\ \E i, j \in 1..Len(env.rows) :
         /\ PixelInside(RasterOf(1), PixelOf(1, i))
         /\ ~PixelInside(RasterOf(1), PixelOf(1, j))

\* ---- C6
NamedCauses ==
    { "Error: No .SAFE directory found", "Error: No .jp2 files found",
      "Error: No band files found" }

\* C6: a run that loaded the ground truth and ended with an empty band
\* catalog ended with status 1, wrote no table, opened no band raster, and
\* its last message is an error report naming the cause.
C6_EmptyCatalogFatal ==
    (pc \in { "exit", "done" } /\ env.lucas /\ band_files = <<>>) =>
        /\ exit_status = 1
        /\ csv = <<>>
        /\ \A o \in 1..Len(opened) : opened[o].dir = "fao_gaez"
        /\ stdout # <<>>
        /\ stdout[Len(stdout)].kind \in NamedCauses

\* ---- C9
\* C9: while bands are sampled, 9 columns are kept per finished band; in the
\* table written by a run without injected failures, for every band and
\* every point whose whole window is inside the raster, column {band}_{k}
\* holds the pixel at row r - 1 + (k-1) div 3 and column c - 1 + (k-1) mod 3
\* of the point's containing pixel (r, c).
C9_WindowLayout ==
    /\ pc \in { "band_loop", "point_loop" } =>
         Len(all_band_data.columns) = 9 * (bi - 1)
    /\ pc = "done" =>
         /\ Len(all_band_data.columns) = 9 * Len(band_files)
         /\ \A b \in 1..Len(band_files), i \in 1..Len(coords_projected), k \in 1..9 :
              (NoFaultInjected /\ WindowInside(RasterOf(b), PixelOf(b, i))) =>
                 Column(csv[1], neighbor_col(band_files[b][2], k))[i] =
                    Float(DN(RasterOf(b),
                             PixelOf(b, i)[1] - 1 + ((k - 1) \div 3),
                             PixelOf(b, i)[2] - 1 + ((k - 1) % 3)))

\* a table was written for a point whose window is inside the raster
C9_Witness ==
    /\ pc = "done"
    /\ NoFaultInjected
    /\ \E b \in 1..Len(band_files), i \in 1..Len(coords_projected) :
         /\ WindowInside(RasterOf(b), PixelOf(b, i))
         /\ PixelOf(b, i)[1] # PixelOf(b, i)[2]

\* ---- C10
\* C10: in a run without injected failures, when the point just sampled has
\* its whole window inside the band raster, nothing was raised, its row has
\* exactly 9 values and the 5th is what the scalar sampler (src.sample, as
\* used for the yield rasters) returns for the same coordinate and raster.
C10_CenterIsScalarSample ==
    (pc = "point_loop" /\ pi > 1 /\ NoFaultInjected
        /\ WindowInside(RasterOf(bi), PixelOf(bi, pi - 1))) =>
        /\ exc = "none"
        /\ Len(band_data_3x3[pi - 1]) = 9
        /\ band_data_3x3[pi - 1][5] =
             sample(RasterOf(bi), coords_projected[pi - 1])

\* a point with its window inside the second band's raster was just sampled
C10_Witness ==
    /\ pc = "point_loop" /\ pi > 1 /\ bi = 2
    /\ NoFaultInjected
    /\ WindowInside(RasterOf(bi), PixelOf(bi, pi - 1))
    /\ NoneNaN(band_data_3x3[pi - 1])

\* ---- C11
\* the yield raster sampled k-th, and whether a point lies outside its extent
YieldRasterOf(k) == YieldRaster(yield_files[k], env.shape, env.nodata)
OutsideYield(k, p) == ~PixelInside(YieldRasterOf(k), ContainingPixel(YieldRasterOf(k), coords_wgs84[p]))

\* C11: once a yield raster has been sampled, every point outside its extent
\* has NaN in that raster's feature column, every point inside has the pixel
\* of its cell, and the run has not failed in the yield loop.
C11_ScalarOutsideIsSentinel ==
    pc = "yield_loop" =>
        /\ exit_status = Running
        /\ \A k \in 1..(yi - 1), p \in 1..Len(coords_wgs84) :
             LET cell == Column(df_lucas, feature_name(yield_files[k]))[p]
                 rc == ContainingPixel(YieldRasterOf(k), coords_wgs84[p])
             IN  IF OutsideYield(k, p) THEN cell = NaN
                 ELSE cell = Float(DN(YieldRasterOf(k), rc[1], rc[2]))

\* ---- C12
\* whether a band was catalogued, by its code
Catalogued(code) == \E b \in 1..Len(band_files) : band_files[b][2] = code

\* C12: from the index step on, and in the table written, NDVI is a column
\* iff B08_5 and B04_5 are, NDRE iff B08_5 and B05_5 are, GNDVI iff B08_5
\* and B03_5 are; a center column is present iff its band was catalogued;
\* every run that reached the index step goes on to write the table once
\* and ends with status 0, whichever bands are missing; a run with bands
\* catalogued stops only before any band is sampled, when the mosaic has
\* no CRS.
C12_IndexIffBothBands ==
    /\ pc \in { "save", "done" } =>
         /\ HasColumn(df_lucas, NDVI) <=> (HasColumn(df_lucas, B08_5) /\ HasColumn(df_lucas, B04_5))
         /\ HasColumn(df_lucas, NDRE) <=> (HasColumn(df_lucas, B08_5) /\ HasColumn(df_lucas, B05_5))
         /\ HasColumn(df_lucas, GNDVI) <=> (HasColumn(df_lucas, B08_5) /\ HasColumn(df_lucas, B03_5))
         /\ \A c \in { <<"B","0","3">>, <<"B","0","4">>, <<"B","0","5">>, <<"B","0","8">> } :
              HasColumn(df_lucas, neighbor_col(c, 5)) <=> Catalogued(c)
         /\ exit_status \in { Running, 0 }
    /\ pc = "done" =>
         /\ exit_status = 0
         /\ csv = << df_lucas >>
         /\ HasColumn(csv[1], NDVI) <=> (Catalogued(<<"B","0","8">>) /\ Catalogued(<<"B","0","4">>))
         /\ HasColumn(csv[1], NDRE) <=> (Catalogued(<<"B","0","8">>) /\ Catalogued(<<"B","0","5">>))
         /\ HasColumn(csv[1], GNDVI) <=> (Catalogued(<<"B","0","8">>) /\ Catalogued(<<"B","0","3">>))
    /\ (pc = "exit" /\ band_files # <<>>) =>
         /\ env.crs = ""
         /\ \A c \in { <<"B","0","3">>, <<"B","0","4">>, <<"B","0","5">>, <<"B","0","8">> } :
              ~HasColumn(df_lucas, neighbor_col(c, 5))

\* a table was written with NDRE but neither NDVI nor GNDVI: B08 and B05
\* were catalogued, B04 and B03 were not
C12_Witness ==
    /\ pc = "done"
    /\ HasColumn(csv[1], NDRE)
    /\ ~HasColumn(csv[1], NDVI)
    /\ ~HasColumn(csv[1], GNDVI)
    /\ Catalogued(<<"B","0","8">>) /\ ~Catalogued(<<"B","0","4">>)

\* ---- C13
\* the index columns with the center columns they are computed from
IndexTriples ==
    { << NDVI, B08_5, B04_5 >>, << NDRE, B08_5, B05_5 >>, << GNDVI, B08_5, B03_5 >> }

\* q is the quotient n / d, d # 0, as a fraction with positive denominator
IsQuotient(q, n, d) == q[2] > 0 /\ q[1] * d = n * q[2]

\* C13: in the table written, every cell of an index column is the quotient
\* (A - B) / (A + B) of the row's two center cells when both are numbers and
\* A + B # 0 (so 50 and 30 give 1/4), and NaN when A + B = 0 (A = B = 0 or
\* A = -B) or either center cell is NaN; no cell of the table is an
\* infinity; the run ends with status 0.
C13_IndexValue ==
    pc = "done" =>
        /\ exit_status = 0
        /\ \A j \in 1..Len(csv[1].data) : \A k \in 1..Len(csv[1].data[j]) :
             csv[1].data[j][k] \notin { PosInf, NegInf }
        /\ \A t \in IndexTriples :
             HasColumn(csv[1], t[1]) =>
                \A k \in 1..Len(csv[1].index) :
                    LET A == Column(csv[1], t[2])[k]
                        B == Column(csv[1], t[3])[k]
                        v == Column(csv[1], t[1])[k]
                    IN  /\ (A = NaN \/ B = NaN) => v = NaN
                        /\ (A # NaN /\ B # NaN /\ A[1] + B[1] = 0) => v = NaN
                        /\ (A # NaN /\ B # NaN /\ A[1] + B[1] # 0) =>
                              IsQuotient(v, A[1] - B[1], A[1] + B[1])
                        /\ (A = Float(50) /\ B = Float(30)) => v = << 1, 4 >>

\* a table was written in which NDVI is 1/4 from 50 and 30 in one row and
\* NaN in a row where only one of the two center cells is NaN
C13_Witness ==
    /\ pc = "done"
    /\ HasColumn(csv[1], NDVI)
    /\ \E k \in 1..Len(csv[1].index) :
         /\ Column(csv[1], B08_5)[k] = Float(50)
         /\ Column(csv[1], B04_5)[k] = Float(30)
         /\ Column(csv[1], NDVI)[k] = << 1, 4 >>
    /\ \E k \in 1..Len(csv[1].index) :
         /\ Column(csv[1], B08_5)[k] = NaN
         /\ Column(csv[1], B04_5)[k] # NaN
         /\ Column(csv[1], NDVI)[k] = NaN

\* a table was written for a row whose center cells are opposite numbers
C13_WitnessInfinity ==
    /\ pc = "done"
    /\ HasColumn(csv[1], NDVI)
    /\ \E k \in 1..Len(csv[1].index) :
         /\ Column(csv[1], B08_5)[k] = Float(30)
         /\ Column(csv[1], B04_5)[k] = Float(0 - 30)
         /\ Column(csv[1], NDVI)[k] = NaN

\* ---- C14
\* the columns named {band}_{1..9} of the catalogued bands
NeighborColumns == { neighbor_col(band_files[b][2], j) : b \in 1..Len(band_files), j \in 1..9 }

\* -1 <= q <= 1 for a fraction with positive denominator
InUnitRange(q) == q[2] > 0 /\ 0 - q[2] <= q[1] /\ q[1] <= q[2]

\* C14: the table written by a run over exactly the bands B04 and B08 has
\* one row per point, 18 neighbourhood columns and NDVI as its only index
\* column; a row whose point is outside both rasters has NaN in all 18
\* neighbourhood cells and in NDVI; a row whose point is inside them has a
\* finite NDVI between -1 and 1 whenever its B04_5 and B08_5 are numbers
\* that are not negative.
C14_Scenario ==
    (pc = "done" /\ Len(band_files) = 2
        /\ Catalogued(<<"B","0","4">>) /\ Catalogued(<<"B","0","8">>)) =>
        /\ Len(csv[1].index) = Len(env.rows)
        /\ Cardinality({ j \in 1..Len(csv[1].columns) : csv[1].columns[j] \in NeighborColumns }) = 18
        /\ HasColumn(csv[1], NDVI) /\ ~HasColumn(csv[1], NDRE) /\ ~HasColumn(csv[1], GNDVI)
        /\ \A k \in 1..Len(env.rows) :
             IF \A b \in 1..2 : ~PixelInside(RasterOf(b), PixelOf(b, k))
             THEN /\ \A c \in NeighborColumns : Column(csv[1], c)[k] = NaN
                  /\ Column(csv[1], NDVI)[k] = NaN
             ELSE (\A b \in 1..2 : PixelInside(RasterOf(b), PixelOf(b, k))) =>
                    LET A == Column(csv[1], B08_5)[k]
                        B == Column(csv[1], B04_5)[k]
                    IN  (IsFinite(A) /\ IsFinite(B) /\ A[1] >= 0 /\ B[1] >= 0) =>
                            /\ IsFinite(Column(csv[1], NDVI)[k])
                            /\ InUnitRange(Column(csv[1], NDVI)[k])

\* ---- C15
\* how many times a file was opened so far
Opens(file_path) == Cardinality({ o \in 1..Len(opened) : opened[o] = file_path })

\* C15: no band file is opened more than once in a run and each is opened
\* once by the end; a handle is held only in the point loop of its band and
\* it is that band's; never more than one handle is open; none is open when
\* the run has ended, whatever the sampling of a point raised.
C15_HandleScoped ==
    /\ \A b \in 1..Len(band_files) : Opens(band_files[b][1]) <= 1
    /\ pc = "done" => \A b \in 1..Len(band_files) : Opens(band_files[b][1]) = 1
    /\ Len(src) <= 1
    /\ src # <<>> <=> pc = "point_loop"
    /\ pc = "point_loop" => src = << band_files[bi][1] >>
    /\ pc \in { "done", "exit" } => src = <<>>

\* ---- C16
\* C16: the table is written at most once and only by the step that ends
\* the run with status 0; a run that has stopped otherwise has status 1 and
\* has written nothing; no run writes the table when the ground-truth file
\* is missing, no .SAFE directory exists, no .jp2 file is found, no file
\* is a usable band or the first band has no CRS.
C16_NoPartialOutput ==
    /\ Len(csv) <= 1
    /\ csv # <<>> <=> pc = "done"
    /\ pc = "done" <=> exit_status = 0
    /\ pc = "exit" <=> exit_status = 1
    /\ (\/ ~env.lucas
        \/ env.safe_dirs = <<>>
        \/ \A d \in { "R10m", "R20m", "R60m" } : env.tree[d] = <<>>
        \/ \A d \in { "R10m", "R20m", "R60m" } : \A k \in 1..Len(env.tree[d]) :
               extract_band_name(env.tree[d][k]) = None
        \/ env.crs = "")
         => (csv = <<>> /\ pc # "done" /\ exit_status # 0)

\* a run stopped with status 1 after it had sampled a yield raster into the
\* table in memory, and nothing was written
C16_Witness ==
    /\ pc = "exit"
    /\ exit_status = 1
    /\ Len(df_lucas.columns) > 2
    /\ csv = <<>>

\* ---- C17
\* the positions at which the projected list exists
AfterReproject == { "band_loop", "point_loop", "indices", "save", "done" }

\* what holds of the two coordinate lists in every state
C17_Lists ==
    /\ pc # "load" => (pc = "exit" /\ ~env.lucas) \/ coords_wgs84 = env.rows
    /\ pc \notin AfterReproject =>
         /\ coords_projected = <<>>
         /\ src = <<>> /\ all_band_data.columns = <<>> /\ band_data_3x3 = <<>>
    /\ pc \in AfterReproject =>
         /\ fi > Len(jp2_files)
         /\ target_crs = RasterOf(1).crs
         /\ Len(coords_projected) = Len(env.rows)
         /\ \A k \in 1..Len(env.rows) :
              coords_projected[k] = Project(RasterOf(1).crs, env.rows[k])
    /\ (pc = "point_loop" /\ NoFaultInjected) =>
         \A k \in 1..(pi - 1) :
            band_data_3x3[k] =
                sample_point(RasterOf(bi), Project(RasterOf(1).crs, env.rows[k]), "none").row

\* what holds of every step: the projected list is assigned only by the
\* step between the catalog and the band loop, the source list only by the
\* loading step
C17_Step ==
    /\ coords_projected' # coords_projected =>
         (pc = "reproject" /\ pc' = "band_loop" /\ opened' = opened /\ src' = <<>>)
    /\ pc = "reproject" => pc' \in { "band_loop", "exit" }
    /\ pc \in AfterReproject => pc' \in AfterReproject
    /\ coords_wgs84' # coords_wgs84 => pc = "load"
    /\ target_crs' # target_crs => (pc = "catalog" /\ pc' = "reproject")

\* C17: the points are projected once, by the step that follows the
\* complete catalog and precedes the first band, into the CRS of the first
\* catalogued band's file; the projected list has one entry per input point
\* in input order and stays as it is while every band is sampled from it;
\* the source list is the input points from loading on.
C17_ReprojectedOnce == []C17_Lists /\ [][C17_Step]_vars

\* the second band, whose file is of another zone than the first one's, is
\* being sampled from the list projected into the first band's CRS
C17_Witness ==
    /\ pc = "point_loop" /\ bi = 2 /\ pi > 1
    /\ Len(env.rows) >= 2
    /\ RasterOf(2).crs # RasterOf(1).crs
    /\ target_crs = RasterOf(1).crs
    /\ coords_projected # coords_wgs84

\* ---- C18
\* the message is among those the orchestrator printed
Printed(kind, arg) == \E d \in 1..Len(orch.out) : orch.out[d] = Diag(kind, arg)

\* C18: the scripts started so far are the first ones of the pipeline in its
\* order; every script before the last started one ended with status 0; a
\* child runs only while no result of the last started script is known, so
\* never two at once; the orchestrator has exited with 1 exactly when the
\* last started script was missing, ended non-zero or could not be launched,
\* and then its last message is the halt message naming that script and no
\* later script was started; 'Pipeline Completed Successfully' is printed
\* exactly when all four scripts ended with status 0, and the exit status
\* is then 0.
C18_StagesInOrder ==
    /\ orch.started = SubSeq(SCRIPT_PIPELINE, 1, Len(orch.started))
    /\ \A k \in 1..(Len(orch.started) - 1) :
         /\ orch.children[k] = Child("ok", TRUE, 0)
         /\ orch.finished[k] = [ raised |-> "none", returncode |-> 0 ]
    /\ Len(orch.finished) = Len(orch.started) - (IF orch.pc = "child" THEN 1 ELSE 0)
    /\ orch.pc = "child" => orch.i = Len(orch.started)
    /\ orch.exit = 1 <=>
         (/\ orch.pc = "exit"
          /\ orch.started # <<>>
          /\ orch.children[Len(orch.started)] # Child("ok", TRUE, 0))
    /\ orch.exit = 1 =>
         /\ orch.out[Len(orch.out)] =
                Diag("Pipeline HALTED at", orch.started[Len(orch.started)])
         /\ ~Printed("Pipeline Completed Successfully", <<>>)
    /\ Printed("Pipeline Completed Successfully", <<>>) <=>
         (/\ orch.pc = "exit"
          /\ orch.exit = 0
          /\ orch.started = SCRIPT_PIPELINE
          /\ \A k \in 1..Len(SCRIPT_PIPELINE) : orch.children[k] = Child("ok", TRUE, 0))
    /\ orch.pc = "exit" => orch.exit \in { 0, 1 }
    /\ orch.pc # "exit" => orch.exit = Running

\* the orchestrator halted at the third script, whose file is missing,
\* after the first two ended with status 0, although the fourth would run
C18_Witness ==
    /\ orch.pc = "exit"
    /\ orch.exit = 1
    /\ Len(orch.started) = 3
    /\ ~orch.children[3].present
    /\ orch.children[4] = Child("ok", TRUE, 0)

\* ---- C19
\* C19: when the acquisition stage has ended with status 0, an archive was
\* downloaded and extracted into data/raw/ by that run; a run that found no
\* product, downloaded nothing or extracted nothing has not ended with
\* status 0.
C19_SuccessMeansData ==
    (acq.pc = "exit" /\ acq.exit = 0) =>
        /\ acq.products # <<>>
        /\ acq.downloaded
        /\ acq.extracted

\* ---- C20
\* C20: a run of the weather stage that has loaded its input table ends
\* only with the output table written and exit status 0, whatever the
\* fetches returned.
C20_LoadedRunWritesOutput ==
    (wx.loaded /\ wx.pc = "exit") => (wx.exit = 0 /\ wx.written # None)

====
